---------------------------- MODULE Spec2Model ----------------------------
(***************************************************************************)
(* A model of the request handlers of the chat backend (server/src/        *)
(* handlers) over the relational store they share.  The five tables of     *)
(* db/schema.ts are the state; every handler is an action.  Text is a      *)
(* sequence of one-character strings, so that key derivation, substitution *)
(* and pattern matching are computed as the handlers compute them.         *)
(* Timestamps are whole hours on one clock, `now`.                         *)
(***************************************************************************)
EXTENDS Integers, Sequences, FiniteSets, TLC

VARIABLES users, chats, messages, aiContext, meetings, now, last, procs, seen

vars == <<users, chats, messages, aiContext, meetings, now, last, procs, seen>>

-----------------------------------------------------------------------------
(* Bounds of the model. *)

\* The clock runs over 0, TickHours, 2*TickHours, ... up to MaxTime.
MaxTime == 36
TickHours == 12
\* start_time / end_time of a meeting are drawn from 0..MaxMeetingTime.
MaxMeetingTime == 2
\* At most MaxRows rows in the ai_context table.
MaxRows == 2

TimePoints == {t \in 0..MaxTime : t % TickHours = 0}
MeetingTimes == 0..MaxMeetingTime

-----------------------------------------------------------------------------
(* Optional and nullable values.  An optional timestamp is <<>> (undefined *)
(* or NULL) or <<t>>; an optional string is Absent (undefined), Null or    *)
(* the string.                                                             *)

Absent == "absent"
Null == "null"
None == <<>>
Some(x) == <<x>>

NoCall == [op |-> "none", status |-> "ok"]

-----------------------------------------------------------------------------
(* The meetings table and updateMeeting.                                   *)

MeetingStatuses == {"scheduled", "in_progress", "completed", "cancelled"}

Meeting(id, start, end, status) ==
    [id |-> id, title |-> "Original Meeting", description |-> "Original description",
     start_time |-> start, end_time |-> end, timezone |-> "UTC",
     meeting_url |-> "https://original.example.com", status |-> status,
     updated_at |-> 0]

\* The existence check: select().from(meetingsTable).where(eq(id, input.id)).
ExistingMeeting(id) == {m \in meetings : m.id = id}

\* input.start_time || existingMeeting[0].start_time (a Date is always truthy).
FinalStartTime(input, existing) ==
    IF input.start_time # None THEN input.start_time[1] ELSE existing.start_time

\* input.end_time || existingMeeting[0].end_time.
FinalEndTime(input, existing) ==
    IF input.end_time # None THEN input.end_time[1] ELSE existing.end_time

\* Variants of the validation, each a slip the claims below must detect.
RejectsOnlyWhenBothGiven(input, existing) ==
    /\ input.start_time # None
    /\ input.end_time # None
    /\ input.start_time[1] >= input.end_time[1]

RejectsStrictlyAfter(input, existing) ==
    FinalStartTime(input, existing) > FinalEndTime(input, existing)

\* if (finalStartTime >= finalEndTime) throw ...
UpdateMeetingRejects(input, existing) ==
    FinalStartTime(input, existing) >= FinalEndTime(input, existing)

\* updateData with a status that a finished meeting keeps.
FinishedMeetingKeepsStatus(input, existing, t) ==
    [existing EXCEPT
        !.updated_at = t,
        !.title = IF input.title # Absent THEN input.title ELSE @,
        !.description = IF input.description # Absent THEN input.description ELSE @,
        !.start_time = IF input.start_time # None THEN input.start_time[1] ELSE @,
        !.end_time = IF input.end_time # None THEN input.end_time[1] ELSE @,
        !.timezone = IF input.timezone # Absent THEN input.timezone ELSE @,
        !.meeting_url = IF input.meeting_url # Absent THEN input.meeting_url ELSE @,
        !.status = IF input.status # Absent /\ @ \notin {"completed", "cancelled"}
                   THEN input.status ELSE @]

\* updateData: updated_at always, every other column only when the input
\* carries it (input.x !== undefined); then update().set(updateData).
UpdateData(input, existing, t) ==
    [existing EXCEPT
        !.updated_at = t,
        !.title = IF input.title # Absent THEN input.title ELSE @,
        !.description = IF input.description # Absent THEN input.description ELSE @,
        !.start_time = IF input.start_time # None THEN input.start_time[1] ELSE @,
        !.end_time = IF input.end_time # None THEN input.end_time[1] ELSE @,
        !.timezone = IF input.timezone # Absent THEN input.timezone ELSE @,
        !.meeting_url = IF input.meeting_url # Absent THEN input.meeting_url ELSE @,
        !.status = IF input.status # Absent THEN input.status ELSE @]

\* What a call leaves in `last`: the operation, the id, times and status it
\* was given, the status the meeting had, and how the call ended.
UpdateMeetingCall(input, status, found) ==
    [op |-> "updateMeeting", id |-> input.id, start_time |-> input.start_time,
     end_time |-> input.end_time, status |-> status,
     input_status |-> input.status, previous |-> {m.status : m \in found}]

\* The text columns an input may carry besides the times and the status.
OtherFields ==
    { [title |-> Absent, description |-> Absent, timezone |-> Absent, meeting_url |-> Absent],
      [title |-> "Updated Meeting Title", description |-> Null,
       timezone |-> "America/New_York", meeting_url |-> Null] }

MeetingIds == {"m1", "m0"}

\* The status an input may carry: none, or any value of the enum.
StatusInputs == {Absent} \cup MeetingStatuses

OptMeetingTimes == {None} \cup {Some(t) : t \in MeetingTimes}

UpdateMeetingInputs ==
    { [id |-> id, title |-> o.title, description |-> o.description,
       start_time |-> s, end_time |-> e, timezone |-> o.timezone,
       meeting_url |-> o.meeting_url, status |-> st] :
         id \in MeetingIds, o \in OtherFields, s \in OptMeetingTimes,
         e \in OptMeetingTimes, st \in StatusInputs }

UpdateMeeting(input) ==
    /\ LET found == ExistingMeeting(input.id) IN
         IF found = {}
         THEN /\ last' = UpdateMeetingCall(input, "Meeting not found", found)
              /\ UNCHANGED meetings
         ELSE LET existing == CHOOSE m \in found : TRUE IN
              IF UpdateMeetingRejects(input, existing)
              THEN /\ last' = UpdateMeetingCall(input, "Meeting start time must be before end time", found)
                   /\ UNCHANGED meetings
              ELSE /\ meetings' = (meetings \ found) \cup
                                    {UpdateData(input, m, now) : m \in found}
                   /\ last' = UpdateMeetingCall(input, "ok", found)
    /\ UNCHANGED <<users, chats, messages, aiContext, now, procs, seen>>

UpdateMeetingStep == \E input \in UpdateMeetingInputs : UpdateMeeting(input)

\* Time passes between calls.
Tick ==
    /\ now + TickHours <= MaxTime
    /\ now' = now + TickHours
    /\ UNCHANGED <<users, chats, messages, aiContext, meetings, last, procs, seen>>

\* A stored meeting with start_time < end_time, as inserted by the tests'
\* beforeEach; "m0" is an id that matches no meeting.
InitMeeting ==
    /\ \E s \in MeetingTimes, e \in MeetingTimes, st \in MeetingStatuses :
          /\ s < e
          /\ meetings = {Meeting("m1", s, e, st)}
    /\ users = {} /\ chats = {} /\ messages = {} /\ aiContext = {}
    /\ now = 0 /\ last = NoCall /\ procs = <<>> /\ seen = {}

NextMeeting == UpdateMeetingStep \/ Tick

SpecMeeting == InitMeeting /\ [][NextMeeting]_vars

-----------------------------------------------------------------------------
(* C1, C2: updateMeeting and the start-before-end invariant.               *)

\* C1: starting from a stored meeting with start_time < end_time, after any
\* sequence of completed updateMeeting calls every stored meeting still has
\* start_time strictly before end_time.
C1_StartBeforeEnd == \A m \in meetings : m.start_time < m.end_time

\* An update that changed a time has been applied.
C1_Witness ==
    /\ last.op = "updateMeeting" /\ last.status = "ok"
    /\ last.start_time # None
    /\ \E m \in meetings : m.id = last.id /\ m.start_time = last.start_time[1]
                            /\ m.updated_at > 0 /\ m.end_time = m.start_time + 1

\* The inputs C2 names, judged against the stored rows before the call.
C2_MustReject(input) ==
    \/ ExistingMeeting(input.id) = {}
    \/ \E m \in ExistingMeeting(input.id) :
          \/ input.start_time # None /\ input.end_time = None
               /\ input.start_time[1] >= m.end_time
          \/ input.end_time # None /\ input.start_time = None
               /\ input.end_time[1] <= m.start_time
          \/ input.start_time # None /\ input.end_time # None
               /\ input.start_time[1] >= input.end_time[1]

\* C2: a call with only a start_time >= the stored end_time, only an end_time
\* <= the stored start_time, both with start >= end, or an unknown id, ends in
\* an error and leaves every field of every stored meeting as it was.
C2_RejectedChangesNothing ==
    [][(now' = now /\ last'.op = "updateMeeting" /\ C2_MustReject(last'))
          => (last'.status # "ok" /\ meetings' = meetings)]_vars

\* A call giving only a start_time at or after the stored end_time was
\* rejected, later than the meeting's last write.
C2_Witness ==
    /\ last.op = "updateMeeting"
    /\ last.status = "Meeting start time must be before end time"
    /\ last.start_time # None /\ last.end_time = None
    /\ \E m \in meetings : m.id = last.id /\ last.start_time[1] >= m.end_time
                            /\ m.updated_at < now


\* C16: on a stored meeting in any status, an updateMeeting call that passes
\* the time validation succeeds and leaves the meeting in the status the call
\* carries, whatever the two statuses are, and in its previous status when
\* the call carries none.
C16_TimesInOrder(call, m) ==
    (IF call.start_time # None THEN call.start_time[1] ELSE m.start_time)
       < (IF call.end_time # None THEN call.end_time[1] ELSE m.end_time)

C16_AnyStatusToAnyStatus ==
    [][(now' = now /\ last'.op = "updateMeeting") =>
         \A m \in meetings :
            (m.id = last'.id /\ C16_TimesInOrder(last', m)) =>
               /\ last'.status = "ok"
               /\ last'.previous = {m.status}
               /\ \E n \in meetings' :
                     /\ n.id = m.id
                     /\ n.status = IF last'.input_status # Absent
                                   THEN last'.input_status ELSE m.status]_vars

\* A completed meeting was set back to scheduled.
C16_Witness ==
    /\ last.op = "updateMeeting" /\ last.status = "ok"
    /\ last.previous = {"completed"}
    /\ last.input_status = "scheduled"
    /\ \E m \in meetings : m.id = last.id /\ m.status = "scheduled"

-----------------------------------------------------------------------------
(* Text.  A string is a sequence of one-character strings; "i_acute" is    *)
(* the single character i with an acute accent.                            *)

W_Hello == <<"H", "e", "l", "l", "o">>
W_hello == <<"h", "e", "l", "l", "o">>
W_World == <<"W", "o", "r", "l", "d">>
W_world == <<"w", "o", "r", "l", "d">>
W_Hola == <<"H", "o", "l", "a">>
W_hola == <<"h", "o", "l", "a">>
W_Mundo == <<"M", "u", "n", "d", "o">>
W_mundo == <<"m", "u", "n", "d", "o">>
W_Bonjour == <<"B", "o", "n", "j", "o", "u", "r">>
W_bonjour == <<"b", "o", "n", "j", "o", "u", "r">>
W_Monde == <<"M", "o", "n", "d", "e">>
W_monde == <<"m", "o", "n", "d", "e">>
W_Hallo == <<"H", "a", "l", "l", "o">>
W_hallo == <<"h", "a", "l", "l", "o">>
W_Welt == <<"W", "e", "l", "t">>
W_welt == <<"w", "e", "l", "t">>
W_Good_morning == <<"G", "o", "o", "d", " ", "m", "o", "r", "n", "i", "n", "g">>
W_good_morning == <<"g", "o", "o", "d", " ", "m", "o", "r", "n", "i", "n", "g">>
W_Guten_morgen == <<"G", "u", "t", "e", "n", " ", "m", "o", "r", "g", "e", "n">>
W_guten_morgen == <<"g", "u", "t", "e", "n", " ", "m", "o", "r", "g", "e", "n">>
W_Buenos_dias == <<"B", "u", "e", "n", "o", "s", " ", "d", "i_acute", "a", "s">>
W_buenos_dias == <<"b", "u", "e", "n", "o", "s", " ", "d", "i_acute", "a", "s">>
W_dias == <<"d", "i_acute", "a", "s">>
L_en == <<"e", "n">>
L_es == <<"e", "s">>
L_fr == <<"f", "r">>
L_de == <<"d", "e">>
L_auto == <<"a", "u", "t", "o">>
UpperCase == <<"A", "B", "C", "D", "E", "F", "G", "H", "I", "J", "K", "L", "M", "N", "O", "P", "Q", "R", "S", "T", "U", "V", "W", "X", "Y", "Z">>
LowerCase == <<"a", "b", "c", "d", "e", "f", "g", "h", "i", "j", "k", "l", "m", "n", "o", "p", "q", "r", "s", "t", "u", "v", "w", "x", "y", "z">>

SP == <<" ">>
US == <<"_">>

\* String.prototype.toLowerCase, character by character.
LowerChar(c) ==
    IF \E i \in 1..Len(UpperCase) : UpperCase[i] = c
    THEN LowerCase[CHOOSE i \in 1..Len(UpperCase) : UpperCase[i] = c]
    ELSE c

ToLowerCase(s) == [i \in 1..Len(s) |-> LowerChar(s[i])]

\* s.substring(0, n)
Substring0(s, n) == IF Len(s) <= n THEN s ELSE SubSeq(s, 1, n)

StartsWith(s, pat) == Len(pat) <= Len(s) /\ SubSeq(s, 1, Len(pat)) = pat

\* String.prototype.includes
Includes(s, pat) ==
    \E i \in 0..(Len(s) - Len(pat)) : SubSeq(s, i + 1, i + Len(pat)) = pat

\* s.replace(/pat/g, rep) for a literal, non-empty pat: leftmost matches,
\* left to right, never overlapping.  ReplaceFrom continues after position
\* pos - 1.
RECURSIVE ReplaceFrom(_, _, _, _)
ReplaceFrom(s, pat, rep, pos) ==
    LET at == {i \in pos..(Len(s) - Len(pat) + 1) : SubSeq(s, i, i + Len(pat) - 1) = pat}
    IN  IF at = {} THEN SubSeq(s, pos, Len(s))
        ELSE LET first == CHOOSE i \in at : \A k \in at : i <= k
             IN  SubSeq(s, pos, first - 1) \o rep
                    \o ReplaceFrom(s, pat, rep, first + Len(pat))

ReplaceAll(s, pat, rep) == ReplaceFrom(s, pat, rep, 1)

\* The characters /\s/ matches, of those the model's texts use.
IsSpace(c) == c \in {" ", "\t", "\n", "\r"}

\* s.replace(/\s+/g, '_'): the first character of every run of whitespace
\* becomes an underscore, the rest of the run goes.
CollapseSpaces(s) ==
    LET Stays(i) == ~IsSpace(s[i]) \/ i = 1 \/ ~IsSpace(s[i - 1])
        kept == SelectSeq([i \in 1..Len(s) |-> i], Stays)
    IN  [n \in 1..Len(kept) |-> IF IsSpace(s[kept[n]]) THEN "_" ELSE s[kept[n]]]

-----------------------------------------------------------------------------
(* translateMessage: the mock translation service, the cache key and the   *)
(* translation_cache rows of the ai_context table.                         *)

\* Confidence and relevance_score in hundredths: 1.0, 0.95, 0.3.
ConfidenceSame == 100
ConfidenceTranslated == 95
ConfidenceUntranslated == 30
\* expiresAt.setHours(expiresAt.getHours() + 24)
CacheTtlHours == 24
\* substring(0, 100) of the cache key.
CacheKeyLength == 100

\* The chain of .replace(/x/g, y) calls of each language pair, in order.
Substitutions(fromLang, toLang) ==
    IF fromLang = L_en /\ toLang = L_es THEN
        << <<W_Hello, W_Hola>>, <<W_hello, W_hola>>, <<W_World, W_Mundo>>,
           <<W_world, W_mundo>>, <<W_Good_morning, W_Buenos_dias>>,
           <<W_good_morning, W_buenos_dias>> >>
    ELSE IF fromLang = L_en /\ toLang = L_fr THEN
        << <<W_Hello, W_Bonjour>>, <<W_hello, W_bonjour>>, <<W_World, W_Monde>>,
           <<W_world, W_monde>>, <<W_Good_morning, W_Bonjour>>,
           <<W_good_morning, W_bonjour>> >>
    ELSE IF fromLang = L_en /\ toLang = L_de THEN
        << <<W_Hello, W_Hallo>>, <<W_hello, W_hallo>>, <<W_World, W_Welt>>,
           <<W_world, W_welt>>, <<W_Good_morning, W_Guten_morgen>>,
           <<W_good_morning, W_guten_morgen>> >>
    ELSE IF fromLang = L_es /\ toLang = L_en THEN
        << <<W_Hola, W_Hello>>, <<W_hola, W_hello>>, <<W_Mundo, W_World>>,
           <<W_mundo, W_world>>, <<W_Buenos_dias, W_Good_morning>>,
           <<W_buenos_dias, W_good_morning>> >>
    ELSE IF fromLang = L_es /\ toLang = L_fr THEN
        << <<W_Hola, W_Bonjour>>, <<W_hola, W_bonjour>>, <<W_Mundo, W_Monde>>,
           <<W_mundo, W_monde>> >>
    ELSE IF fromLang = L_fr /\ toLang = L_en THEN
        << <<W_Bonjour, W_Hello>>, <<W_bonjour, W_hello>>, <<W_Monde, W_World>>,
           <<W_monde, W_world>> >>
    ELSE IF fromLang = L_fr /\ toLang = L_es THEN
        << <<W_Bonjour, W_Hola>>, <<W_bonjour, W_hola>>, <<W_Monde, W_Mundo>>,
           <<W_monde, W_mundo>> >>
    ELSE IF fromLang = L_de /\ toLang = L_en THEN
        << <<W_Hallo, W_Hello>>, <<W_hallo, W_hello>>, <<W_Welt, W_World>>,
           <<W_welt, W_world>> >>
    ELSE << >>

RECURSIVE ApplySubstitutions(_, _)
ApplySubstitutions(s, subs) ==
    IF subs = << >> THEN s
    ELSE ApplySubstitutions(ReplaceAll(s, Head(subs)[1], Head(subs)[2]), Tail(subs))

detectLanguage(s) ==
    LET lowerText == ToLowerCase(s) IN
    IF Includes(lowerText, W_hola) \/ Includes(lowerText, W_mundo)
          \/ Includes(lowerText, W_dias) THEN L_es
    ELSE IF Includes(lowerText, W_bonjour) \/ Includes(lowerText, W_monde) THEN L_fr
    ELSE IF Includes(lowerText, W_hallo) \/ Includes(lowerText, W_welt) THEN L_de
    ELSE L_en

\* detectedLang: None unless fromLang is 'auto'.
DetectedLanguage(s, fromLang) == IF fromLang = L_auto THEN Some(detectLanguage(s)) ELSE None

\* fromLang === 'auto' ? (detectedLanguage || 'en') : fromLang
ActualFromLang(s, fromLang) ==
    IF fromLang = L_auto
    THEN (IF detectLanguage(s) # <<>> THEN detectLanguage(s) ELSE L_en)
    ELSE fromLang

mockTranslationService(s, fromLang, toLang) ==
    LET actualFromLang == ActualFromLang(s, fromLang)
        translated == ApplySubstitutions(s, Substitutions(actualFromLang, toLang))
    IN  IF actualFromLang = toLang
        THEN [translated |-> s, confidence |-> ConfidenceSame,
              detectedLang |-> DetectedLanguage(s, fromLang)]
        ELSE [translated |-> translated,
              confidence |-> IF translated # s THEN ConfidenceTranslated
                             ELSE ConfidenceUntranslated,
              detectedLang |-> DetectedLanguage(s, fromLang)]

generateCacheKey(message, fromLang, toLang) ==
    Substring0(CollapseSpaces(message \o US \o fromLang \o US \o toLang), CacheKeyLength)

\* The jsonb column embedding_vector: NULL, an array of numbers, or the
\* cacheData object translateMessage stores.
NullVector == [kind |-> "null"]
NumberVector == [kind |-> "vector"]
CacheData(text, detected, message, fromLang, toLang) ==
    [kind |-> "cacheData", translated_text |-> text, detected_language |-> detected,
     original_message |-> message, from_language |-> fromLang, to_language |-> toLang]

\* A row of ai_context.  chat_id and expires_at are nullable (None).
AIContextRow(id, user, chat, type, content, vector, score, expires, created) ==
    [id |-> id, user_id |-> user, chat_id |-> chat, context_type |-> type,
     content |-> content, embedding_vector |-> vector, relevance_score |-> score,
     expires_at |-> expires, created_at |-> created]

\* gen_random_uuid(): rows are never deleted, so the row count names a fresh id.
FreshId(table) == Cardinality(table) + 1

CachedTranslationsOfAnyUser(table, user, cacheKey) ==
    {r \in table : r.context_type = "translation_cache" /\ r.content = cacheKey}

CachedTranslationsOfWrongType(table, user, cacheKey) ==
    {r \in table : r.user_id = user /\ r.context_type = "conversation_summary"
                    /\ r.content = cacheKey}

\* A lookup that finds nothing: every request is translated afresh.
CachedTranslationsNeverFound(table, user, cacheKey) == {}

\* where(and(eq(user_id), eq(context_type, 'translation_cache'), eq(content, cacheKey)))
CachedTranslations(table, user, cacheKey) ==
    {r \in table : r.user_id = user /\ r.context_type = "translation_cache"
                    /\ r.content = cacheKey}

\* cachedData.translated_text || message, cachedData being embedding_vector || {}.
CachedText(cached, message) ==
    IF cached.embedding_vector.kind # "cacheData" THEN message
    ELSE IF cached.embedding_vector.translated_text = <<>> THEN message
    ELSE cached.embedding_vector.translated_text

CachedDetectedLanguage(cached) ==
    IF cached.embedding_vector.kind # "cacheData" THEN None
    ELSE cached.embedding_vector.detected_language

CacheRow(table, input, t) ==
    LET tr == mockTranslationService(input.message, input.from_language, input.to_language)
    IN  AIContextRow(FreshId(table), input.user_id, None, "translation_cache",
            generateCacheKey(input.message, input.from_language, input.to_language),
            CacheData(tr.translated, tr.detectedLang, input.message,
                      input.from_language, input.to_language),
            tr.confidence, Some(t + CacheTtlHours), t)

InsertUnlessPresent(table, row) ==
    IF \E r \in table : r.user_id = row.user_id /\ r.context_type = row.context_type
                         /\ r.content = row.content
    THEN table ELSE table \cup {row}

\* An insert that takes the place of the user's rows of the same type.
UpsertAIContext(table, row) ==
    {r \in table : ~(r.user_id = row.user_id /\ r.context_type = row.context_type)}
       \cup {row}

\* db.insert(aiContextTable).values(row)
InsertAIContext(table, row) == table \cup {row}

TranslateResponse(text, confidence, detected, input) ==
    [translated_text |-> text, confidence |-> confidence,
     detected_language |-> detected, tone_preserved |-> input.preserve_tone]

\* The response of a cache hit on the row `cached`.
HitResponse(cached, input) ==
    TranslateResponse(CachedText(cached, input.message), cached.relevance_score,
                      CachedDetectedLanguage(cached), input)

\* The response of a miss.
MissResponse(input) ==
    LET tr == mockTranslationService(input.message, input.from_language, input.to_language)
    IN  TranslateResponse(tr.translated, tr.confidence, tr.detectedLang, input)

\* The requests of the model: two users, an English and a Spanish text, an
\* explicit and a detected source language, a target equal to the source.
M_Hello_world == W_Hello \o SP \o W_world
M_Hola_mundo == W_Hola \o SP \o W_mundo

TranslateInput(user, message, fromLang, toLang) ==
    [user_id |-> user, message |-> message, from_language |-> fromLang,
     to_language |-> toLang, preserve_tone |-> TRUE]

TranslateInputs ==
    { TranslateInput("u1", M_Hello_world, L_en, L_es),
      TranslateInput("u2", M_Hello_world, L_en, L_es),
      TranslateInput("u1", M_Hello_world, L_en, L_en),
      TranslateInput("u1", M_Hola_mundo, L_auto, L_es),
      TranslateInput("u1", M_Hola_mundo, L_auto, L_en),
      TranslateInput("u1", M_Hola_mundo, L_en, L_es) }

\* What a call leaves in `last`: its input, the time of the call, whether the
\* same user had completed a call with the same input before, whether it was
\* answered from the cache (and from which row), and the response.
TranslateCall(input, repeat, hit, row, response) ==
    [op |-> "translateMessage", status |-> "ok", input |-> input, at |-> now,
     repeat |-> repeat, hit |-> hit, row |-> row, response |-> response]

\* The text the first completed call of each (user, request) returned.
FirstSeen(input, response) ==
    IF \E f \in seen : f.input = input THEN seen
    ELSE seen \cup {[input |-> input, text |-> response.translated_text]}

\* limit(1) without ORDER BY: any one of the matching rows.
TranslateMessage(input) ==
    LET cacheKey == generateCacheKey(input.message, input.from_language, input.to_language)
        cachedTranslations == CachedTranslations(aiContext, input.user_id, cacheKey)
        repeat == \E f \in seen : f.input = input
    IN  /\ IF cachedTranslations # {}
           THEN \E cached \in cachedTranslations :
                  /\ last' = TranslateCall(input, repeat, TRUE, cached.id,
                                           HitResponse(cached, input))
                  /\ seen' = FirstSeen(input, HitResponse(cached, input))
                  /\ UNCHANGED aiContext
           ELSE /\ Cardinality(aiContext) < MaxRows
                /\ aiContext' = InsertAIContext(aiContext, CacheRow(aiContext, input, now))
                /\ last' = TranslateCall(input, repeat, FALSE, FreshId(aiContext),
                                         MissResponse(input))
                /\ seen' = FirstSeen(input, MissResponse(input))
        /\ UNCHANGED <<users, chats, messages, meetings, now, procs>>

TranslateMessageStep == \E input \in TranslateInputs : TranslateMessage(input)

InitTranslate ==
    /\ users = {} /\ chats = {} /\ messages = {} /\ aiContext = {} /\ meetings = {}
    /\ now = 0 /\ last = NoCall /\ procs = <<>> /\ seen = {}

NextTranslate == TranslateMessageStep \/ Tick

SpecTranslate == InitTranslate /\ [][NextTranslate]_vars

-----------------------------------------------------------------------------
(* C5, C6, C7: the translation cache under calls that run one at a time.   *)

\* The translation_cache rows of a user whose content is the key of a request.
C5_RowsOf(input) ==
    {r \in aiContext :
        /\ r.user_id = input.user_id
        /\ r.context_type = "translation_cache"
        /\ r.content = generateCacheKey(input.message, input.from_language,
                                        input.to_language)}

\* C5: a call with the same (message, from_language, to_language) as an earlier
\* completed call of the same user is answered from the cache with the text the
\* first call returned and inserts nothing: the user keeps exactly one
\* translation_cache row for the key.
C5_RepeatedCallUsesCache ==
    /\ (last.op = "translateMessage" /\ last.repeat) =>
          /\ last.hit
          /\ \A f \in seen : f.input = last.input =>
                last.response.translated_text = f.text
    /\ \A f \in seen : Cardinality(C5_RowsOf(f.input)) = 1

\* "Hello world" en->es asked again at a later hour and answered "Hola mundo"
\* from the single row the first call stored.
C5_Witness ==
    /\ last.op = "translateMessage" /\ last.repeat /\ last.hit
    /\ last.input = TranslateInput("u1", M_Hello_world, L_en, L_es)
    /\ last.response.translated_text = M_Hola_mundo
    /\ \E r \in C5_RowsOf(last.input) : r.created_at < last.at
    /\ Cardinality(C5_RowsOf(last.input)) = 1

\* C6: translateMessage answers from the cache only when the matching row is
\* unexpired at the time of the call; a call that finds only an expired row is
\* a miss and stores a new row expiring 24 hours after the call.
C6_OnlyUnexpiredRowsAnswer ==
    last.op = "translateMessage" =>
        \E r \in aiContext :
            /\ r.id = last.row
            /\ last.hit => (r.expires_at # None /\ r.expires_at[1] >= last.at)
            /\ ~last.hit => r.expires_at = Some(last.at + CacheTtlHours)

\* C7: when the source language (given, or detected under 'auto') equals the
\* target language, translateMessage returns the text unchanged with confidence
\* 1.0 and leaves the ai_context table as it was.
C7_SameLanguageLeavesNoRow ==
    [][(/\ now' = now
        /\ last'.op = "translateMessage"
        /\ ActualFromLang(last'.input.message, last'.input.from_language)
              = last'.input.to_language)
       => (/\ last'.response.translated_text = last'.input.message
           /\ last'.response.confidence = ConfidenceSame
           /\ aiContext' = aiContext)]_vars

-----------------------------------------------------------------------------
(* translateMessage as two requests in flight: each await of the handler   *)
(* (the select at the top, the insert at the end) is one step, and the     *)
(* steps of the two requests interleave freely.                            *)

ProcIds == {1, 2}

Request(input) == [pc |-> "select", input |-> input, hit |-> FALSE, response |-> Null]

\* await db.select()...limit(1): a hit returns at once, a miss goes on to
\* translate and insert.
TranslateSelect(p) ==
    LET input == procs[p].input
        cacheKey == generateCacheKey(input.message, input.from_language, input.to_language)
        cachedTranslations == CachedTranslations(aiContext, input.user_id, cacheKey)
    IN  /\ procs[p].pc = "select"
        /\ IF cachedTranslations # {}
           THEN \E cached \in cachedTranslations :
                  procs' = [procs EXCEPT ![p] = [pc |-> "done", input |-> input, hit |-> TRUE,
                                                 response |-> HitResponse(cached, input)]]
           ELSE procs' = [procs EXCEPT ![p].pc = "insert"]
        /\ UNCHANGED <<users, chats, messages, aiContext, meetings, now, last, seen>>

\* await db.insert(aiContextTable).values(...), then the return.
TranslateInsert(p) ==
    LET input == procs[p].input IN
    /\ procs[p].pc = "insert"
    /\ Cardinality(aiContext) < MaxRows
    /\ aiContext' = InsertAIContext(aiContext, CacheRow(aiContext, input, now))
    /\ procs' = [procs EXCEPT ![p] = [pc |-> "done", input |-> input, hit |-> FALSE,
                                      response |-> MissResponse(input)]]
    /\ UNCHANGED <<users, chats, messages, meetings, now, last, seen>>

InitRace ==
    /\ users = {} /\ chats = {} /\ messages = {} /\ aiContext = {} /\ meetings = {}
    /\ now = 0 /\ last = NoCall /\ seen = {}
    /\ \E i \in TranslateInputs, j \in TranslateInputs :
          procs = [p \in ProcIds |-> IF p = 1 THEN Request(i) ELSE Request(j)]

NextRace ==
    \/ \E p \in ProcIds : TranslateSelect(p)
    \/ \E p \in ProcIds : TranslateInsert(p)
    \/ Tick

SpecRace == InitRace /\ [][NextRace]_vars

\* The translation_cache rows of the user and key of request p.
C8_RowsOf(p) ==
    {r \in aiContext :
        /\ r.user_id = procs[p].input.user_id
        /\ r.context_type = "translation_cache"
        /\ r.content = generateCacheKey(procs[p].input.message,
                           procs[p].input.from_language, procs[p].input.to_language)}

\* C8: two concurrent calls with identical (message, from_language,
\* to_language, user_id) that both missed the cache have both inserted a row:
\* nothing keeps the second writer out, and the user ends with two
\* translation_cache rows for the one key.
C8_BothMissersInsert ==
    \A p \in ProcIds, q \in ProcIds :
        (/\ p # q
         /\ procs[p].input = procs[q].input
         /\ procs[p].pc = "done" /\ procs[q].pc = "done"
         /\ ~procs[p].hit /\ ~procs[q].hit)
        => Cardinality(C8_RowsOf(p)) >= 2

\* Both requests for "Hello world" en->es of u1 are done, neither was a hit,
\* and two rows with that key are stored for u1.
C8_Witness ==
    /\ procs[1].input = TranslateInput("u1", M_Hello_world, L_en, L_es)
    /\ procs[2].input = procs[1].input
    /\ procs[1].pc = "done" /\ procs[2].pc = "done"
    /\ ~procs[1].hit /\ ~procs[2].hit
    /\ Cardinality(C8_RowsOf(1)) = 2

-----------------------------------------------------------------------------
(* Texts of the chat handlers.                                              *)

M_Schedule_meeting == <<"C", "a", "n", " ", "w", "e", " ", "s", "c", "h", "e", "d", "u", "l", "e", " ", "a", " ", "m", "e", "e", "t", "i", "n", "g">>
M_Call == <<"C", "a", "l", "l", " ", "m", "e">>
J_analysis_date == <<"{", "\"", "a", "n", "a", "l", "y", "s", "i", "s", "_", "d", "a", "t", "e", "\"", ":", "\"">>
J_message_count == <<"\"", ",", "\"", "m", "e", "s", "s", "a", "g", "e", "_", "c", "o", "u", "n", "t", "\"", ":">>
J_suggestions_count == <<",", "\"", "s", "u", "g", "g", "e", "s", "t", "i", "o", "n", "s", "_", "c", "o", "u", "n", "t", "\"", ":">>
J_chat_type == <<",", "\"", "c", "h", "a", "t", "_", "t", "y", "p", "e", "\"", ":", "\"">>
J_participant_count == <<"\"", ",", "\"", "p", "a", "r", "t", "i", "c", "i", "p", "a", "n", "t", "_", "c", "o", "u", "n", "t", "\"", ":">>
J_close == <<"}">>
M_Hello_team == <<"H", "e", "l", "l", "o", " ", "t", "e", "a", "m">>
M_Plan == <<"P", "l", "a", "n", " ", "f", "o", "r", " ", "1", "0", "0", "%", " ", "o", "f", " ", "i", "t">>
Q_hello == <<"h", "e", "l", "l", "o">>
Q_percent == <<"0", "%">>
Q_any == <<"_">>
T_direct == <<"d", "i", "r", "e", "c", "t">>
T_group == <<"g", "r", "o", "u", "p">>
T_ai_assistant == <<"a", "i", "_", "a", "s", "s", "i", "s", "t", "a", "n", "t">>

\* meetingTriggers: keywords, weight (in 1/10000) and type, in the order of the code.
meetingTriggers ==
    << [keywords |-> <<<<"m", "e", "e", "t", "i", "n", "g">>,
                      <<"m", "e", "e", "t">>,
                      <<"s", "c", "h", "e", "d", "u", "l", "e">>,
                      <<"c", "a", "l", "l">>>>,
        weight |-> 9000, type |-> "general"],
       [keywords |-> <<<<"p", "r", "o", "j", "e", "c", "t">>,
                      <<"d", "e", "a", "d", "l", "i", "n", "e">>,
                      <<"p", "l", "a", "n", "n", "i", "n", "g">>,
                      <<"r", "e", "v", "i", "e", "w">>>>,
        weight |-> 8000, type |-> "project"],
       [keywords |-> <<<<"d", "i", "s", "c", "u", "s", "s">>,
                      <<"d", "e", "c", "i", "s", "i", "o", "n">>,
                      <<"s", "t", "r", "a", "t", "e", "g", "y">>,
                      <<"b", "r", "a", "i", "n", "s", "t", "o", "r", "m">>>>,
        weight |-> 7000, type |-> "discussion"],
       [keywords |-> <<<<"p", "r", "o", "b", "l", "e", "m">>,
                      <<"i", "s", "s", "u", "e">>,
                      <<"u", "r", "g", "e", "n", "t">>,
                      <<"h", "e", "l", "p">>>>,
        weight |-> 8500, type |-> "urgent"],
       [keywords |-> <<<<"p", "r", "e", "s", "e", "n", "t", "a", "t", "i", "o", "n">>,
                      <<"d", "e", "m", "o">>,
                      <<"s", "h", "o", "w", "c", "a", "s", "e">>,
                      <<"s", "h", "o", "w">>>>,
        weight |-> 7500, type |-> "presentation"] >>

-----------------------------------------------------------------------------
(* Ordered queries.  ORDER BY leaves the order of rows with equal keys to   *)
(* the store, so a query has a set of possible results.                     *)

Min(a, b) == IF a <= b THEN a ELSE b

Max(a, b) == IF a >= b THEN a ELSE b

\* Every arrangement of the rows of S in a sequence.
Arrangements(S) ==
    {s \in [1..Cardinality(S) -> S] : \A i, j \in DOMAIN s : i # j => s[i] # s[j]}

\* orderBy(desc(relevance_score), desc(created_at)): a is strictly before b.
ByRelevanceThenCreated(a, b) ==
    \/ a.relevance_score > b.relevance_score
    \/ a.relevance_score = b.relevance_score /\ a.created_at > b.created_at

\* orderBy(desc(created_at))
ByCreated(a, b) == a.created_at > b.created_at

\* .limit(n).offset(k) of an ordered result
LimitOffset(s, n, k) == SubSeq(s, k + 1, Min(Len(s), k + n))

Range(s) == {s[i] : i \in DOMAIN s}

-----------------------------------------------------------------------------
(* Users, chats and messages.                                               *)

\* Upper limits on the rows of the users, chats and messages tables.
MaxUsers == 2
MaxChats == 1
MaxMessages == 2

\* Identifiers the store hands out, in the order of insertion; "u0", "c0" and
\* "m0" are well-formed identifiers that no row ever carries.
UserIdOf(n) == <<"u1", "u2", "u3", "u4">>[n]
ChatIdOf(n) == <<"c1", "c2", "c3">>[n]
MessageIdOf(n) == <<"m1", "m2", "m3", "m4">>[n]

N_Ann == <<"A", "n", "n">>
N_Bob == <<"B", "o", "b">>

\* A preferences object: every field is None (absent) or Some(value).
Preferences(language, timezone, level, voice, encryption) ==
    [language |-> language, timezone |-> timezone, ai_assistance_level |-> level,
     voice_enabled |-> voice, encryption_enabled |-> encryption]

PreferenceFields ==
    {"language", "timezone", "ai_assistance_level", "voice_enabled", "encryption_enabled"}

NoPreferences == Preferences(None, None, None, None, None)

defaultPreferences ==
    Preferences(Some("en"), Some("UTC"), Some("moderate"), Some(FALSE), Some(TRUE))

\* { ...base, ...patch } taken whole: the patch replaces the object.
ReplacePreferences(base, patch) == patch

\* { ...base, ...patch }: a field the patch carries replaces the base's.
MergePreferences(base, patch) ==
    [f \in PreferenceFields |-> IF patch[f] # None THEN patch[f] ELSE base[f]]

\* input.preferences is None when the call carries no preferences object.
CreateUserInput(email, name, avatar, preferences) ==
    [email |-> email, display_name |-> name, avatar_url |-> avatar,
     preferences |-> preferences]

UserRow(id, input, t) ==
    [id |-> id, email |-> input.email, display_name |-> input.display_name,
     avatar_url |-> IF input.avatar_url = Absent THEN Null ELSE input.avatar_url,
     preferences |-> IF input.preferences # None
                     THEN MergePreferences(defaultPreferences, input.preferences[1])
                     ELSE defaultPreferences,
     created_at |-> t, updated_at |-> t]

User(id, email) == UserRow(id, CreateUserInput(email, N_Ann, Absent, None), 0)

Chat(id, name, type, participants, creator, t) ==
    [id |-> id, name |-> name, type |-> type, participants |-> participants,
     is_encrypted |-> TRUE, created_by |-> creator, created_at |-> t,
     updated_at |-> t]

Message(id, chat, sender, content, type, replyTo, t) ==
    [id |-> id, chat_id |-> chat, sender_id |-> sender, content |-> content,
     message_type |-> type, reply_to |-> replyTo, is_encrypted |-> TRUE,
     is_edited |-> FALSE, created_at |-> t]

UserExists(table, id) == \E u \in table : u.id = id

ChatById(table, id) == {c \in table : c.id = id}

\* createUser: the insert fails on the unique index of users.email.
Emails == {"a@example.com", "b@example.com"}

\* The store without the unique index on users.email.
NoUniqueIndex(table, row) == FALSE

\* The unique index on users.email refuses the row.
UniqueEmailViolated(table, row) == \E u \in table : u.email = row.email

UniqueViolation == "duplicate key value violates unique constraint"

CreateUser(input) ==
    /\ Cardinality(users) < MaxUsers
    /\ LET row == UserRow(UserIdOf(FreshId(users)), input, now)
       IN  IF UniqueEmailViolated(users, row)
           THEN /\ last' = [op |-> "createUser", status |-> UniqueViolation,
                            input |-> input]
                /\ users' = users
           ELSE /\ users' = users \cup {row}
                /\ last' = [op |-> "createUser", status |-> "ok", input |-> input]
    /\ UNCHANGED <<chats, messages, aiContext, meetings, now, procs, seen>>

CreateUserStep ==
    \E email \in Emails : CreateUser(CreateUserInput(email, N_Ann, Absent, None))

\* The checks of createChat in the order the handler makes them: the creator,
\* then the participants in list order.  The result names the first reference
\* that matches no user, or is "ok".
ParticipantsCheckedFirst(input, table) ==
    LET missing == {i \in DOMAIN input.participants :
                        ~UserExists(table, input.participants[i])}
    IN  IF missing # {}
        THEN [status |-> "participant not found",
              missing |-> input.participants[CHOOSE i \in missing :
                                                \A j \in missing : i <= j]]
        ELSE IF ~UserExists(table, input.created_by)
        THEN [status |-> "creator not found", missing |-> input.created_by]
        ELSE [status |-> "ok", missing |-> Null]

OnlyCreatorChecked(input, table) ==
    IF ~UserExists(table, input.created_by)
    THEN [status |-> "creator not found", missing |-> input.created_by]
    ELSE [status |-> "ok", missing |-> Null]

LastMissingParticipant(input, table) ==
    LET missing == {i \in DOMAIN input.participants :
                        ~UserExists(table, input.participants[i])}
    IN  IF ~UserExists(table, input.created_by)
        THEN [status |-> "creator not found", missing |-> input.created_by]
        ELSE IF missing # {}
        THEN [status |-> "participant not found",
              missing |-> input.participants[CHOOSE i \in missing :
                                                \A j \in missing : i >= j]]
        ELSE [status |-> "ok", missing |-> Null]

CreateChatChecks(input, table) ==
    LET missing == {i \in DOMAIN input.participants :
                        ~UserExists(table, input.participants[i])}
    IN  IF ~UserExists(table, input.created_by)
        THEN [status |-> "creator not found", missing |-> input.created_by]
        ELSE IF missing # {}
        THEN [status |-> "participant not found",
              missing |-> input.participants[CHOOSE i \in missing :
                                                \A j \in missing : i <= j]]
        ELSE [status |-> "ok", missing |-> Null]

CreateChatInput(name, type, participants, creator) ==
    [name |-> name, type |-> type, participants |-> participants,
     created_by |-> creator]

W_Team == <<"T", "e", "a", "m">>

CreateChatInputs ==
    { CreateChatInput(W_Hello, "direct", <<"u1">>, "u1"),
      CreateChatInput(W_Team, "group", <<"u1", "u2">>, "u1"),
      CreateChatInput(W_Hello, "direct", <<"u1">>, "u2"),
      CreateChatInput(W_Team, "group", <<"u2", "u0">>, "u1"),
      CreateChatInput(W_Team, "group", <<"u1", "u0", "u2">>, "u2"),
      CreateChatInput(W_Hello, "direct", <<"u1">>, "u0"),
      CreateChatInput(W_Hello, "direct", <<>>, "u1") }

\* createChat while the chats table holds fewer than `max` rows.
CreateChatUpTo(input, max) ==
    LET check == CreateChatChecks(input, users)
    IN  /\ last' = [op |-> "createChat", status |-> check.status,
                    missing |-> check.missing, input |-> input]
        /\ IF check.status = "ok"
           THEN /\ Cardinality(chats) < max
                /\ chats' = chats \cup
                       {Chat(ChatIdOf(FreshId(chats)), input.name, input.type,
                             input.participants, input.created_by, now)}
           ELSE chats' = chats
        /\ UNCHANGED <<users, messages, aiContext, meetings, now, procs, seen>>

CreateChat(input) == CreateChatUpTo(input, MaxChats)

CreateChatStep == \E input \in CreateChatInputs : CreateChat(input)

\* createMessage inserts the row as given: no chat or sender is looked up, and
\* the messages table carries no foreign key.
CreateMessageInput(chat, sender, content) ==
    [chat_id |-> chat, sender_id |-> sender, content |-> content,
     message_type |-> "text", reply_to |-> Absent]

CreateMessageInputs ==
    { CreateMessageInput("c1", "u1", M_Schedule_meeting),
      CreateMessageInput("c1", "u1", M_Hello_world),
      CreateMessageInput("c1", "u2", M_Call),
      CreateMessageInput("c1", "u0", M_Schedule_meeting),
      CreateMessageInput("c0", "u2", M_Hello_world) }

CreateMessage(input) ==
    /\ Cardinality(messages) < MaxMessages
    /\ LET row == Message(MessageIdOf(FreshId(messages)), input.chat_id,
                          input.sender_id, input.content, input.message_type,
                          IF input.reply_to = Absent THEN Null ELSE input.reply_to,
                          now)
       IN  /\ messages' = messages \cup {row}
           /\ last' = [op |-> "createMessage", status |-> "ok",
                       chat_id |-> input.chat_id, user_id |-> input.sender_id,
                       wrote |-> {row.id}, read |-> {}]
    /\ UNCHANGED <<users, chats, aiContext, meetings, now, procs, seen>>

CreateMessageStep == \E input \in CreateMessageInputs : CreateMessage(input)

\* The date filter taken as "up to and including".
BeforeInclusive(m, input) ==
    /\ m.chat_id = input.chat_id
    /\ (input.before # None => m.created_at <= input.before[1])

\* conditions: eq(chat_id, input.chat_id) and, when `before` is given,
\* lt(created_at, input.before).
MessageConditions(m, input) ==
    /\ m.chat_id = input.chat_id
    /\ (input.before # None => m.created_at < input.before[1])

\* getChatMessages: the rows of the chat, before `before` when it is given,
\* newest first, `limit` rows after skipping `offset`.
GetChatMessagesResults(table, input) ==
    LET rows == {m \in table : MessageConditions(m, input)}
    IN  {LimitOffset(s, input.limit, input.offset) :
            s \in {a \in Arrangements(rows) :
                      \A i, j \in DOMAIN a : i < j => ~ByCreated(a[j], a[i])}}

DefaultMessageLimit == 50

GetChatMessagesInputs ==
    [chat_id : {"c1", "c0"}, limit : {1, DefaultMessageLimit}, offset : {0, 1},
     before : {None, Some(TickHours)}]

GetChatMessages(input) ==
    /\ \E result \in GetChatMessagesResults(messages, input) :
          last' = [op |-> "getChatMessages", status |-> "ok",
                   chat_id |-> input.chat_id, user_id |-> Absent,
                   wrote |-> {}, read |-> {m.id : m \in Range(result)},
                   input |-> input, result |-> result]
    /\ UNCHANGED <<users, chats, messages, aiContext, meetings, now, procs, seen>>

GetChatMessagesStep == \E input \in GetChatMessagesInputs : GetChatMessages(input)

\* The acting user of the chat handlers: the two users that can exist and one
\* that never does.
ActingUsers == {"u1", "u2", "u0"}
TargetChats == {"c1", "c0"}

\* A membership check that lets every user through.
EveryoneIsParticipant(chat, user) == TRUE

\* participants.includes(userId)
IsParticipant(chat, user) == \E i \in DOMAIN chat.participants : chat.participants[i] = user

\* summarizeConversation: chat, then membership, then the messages of the chat
\* joined with their senders, inside the time range when one is given.  The
\* handler writes nothing.
SummarizedMessages(input) ==
    {m \in messages :
        /\ m.chat_id = input.chat_id
        /\ UserExists(users, m.sender_id)
        /\ (input.time_range # None =>
               /\ m.created_at >= input.time_range[1].from
               /\ m.created_at <= input.time_range[1].to)}

SummarizeInputs ==
    [chat_id : TargetChats, user_id : ActingUsers,
     time_range : {None, Some([from |-> TickHours, to |-> MaxTime])},
     summary_type : {"brief"}]

SummarizeConversation(input) ==
    /\ LET chat == ChatById(chats, input.chat_id)
           status == IF chat = {} THEN "Chat not found"
                     ELSE IF \E c \in chat : ~IsParticipant(c, input.user_id)
                     THEN "User not authorized to access this chat"
                     ELSE "ok"
       IN  last' = [op |-> "summarizeConversation", status |-> status,
                    chat_id |-> input.chat_id, user_id |-> input.user_id,
                    wrote |-> {},
                    read |-> IF status = "ok"
                             THEN {m.id : m \in SummarizedMessages(input)} ELSE {}]
    /\ UNCHANGED <<users, chats, messages, aiContext, meetings, now, procs, seen>>

SummarizeConversationStep == \E input \in SummarizeInputs : SummarizeConversation(input)

-----------------------------------------------------------------------------
(* aiMeetingSuggestions.  Confidences are in units of 1/10000 while they    *)
(* are computed and in hundredths once rounded, like relevance_score.       *)

RecentWindowHours == 24
RecentMessageLimit == 50
ConfidenceScale == 10000
SuggestionThreshold == 6000
SuggestionFloor == 5000
SuggestionStep == 1000
SuggestionOffsets == <<2, 24, 48>>

\* messageTexts.join(' ')
RECURSIVE JoinWithSpace(_)
JoinWithSpace(texts) ==
    IF texts = <<>> THEN <<>>
    ELSE IF Len(texts) = 1 THEN texts[1]
    ELSE texts[1] \o SP \o JoinWithSpace(Tail(texts))

\* trigger.keywords.filter(keyword => allText.includes(keyword)).length
TriggerMatches(trigger, allText) ==
    Cardinality({i \in DOMAIN trigger.keywords : Includes(allText, trigger.keywords[i])})

\* Math.min(trigger.weight * (matches / trigger.keywords.length), 1.0)
TriggerConfidence(trigger, matches) ==
    Min((trigger.weight * matches) \div Len(trigger.keywords), ConfidenceScale)

\* The loop over meetingTriggers: a later trigger replaces the best one only
\* when its confidence is strictly greater.
RECURSIVE ScanTriggers(_, _, _)
ScanTriggers(i, allText, best) ==
    IF i > Len(meetingTriggers) THEN best
    ELSE LET trigger == meetingTriggers[i]
             matches == TriggerMatches(trigger, allText)
             confidence == TriggerConfidence(trigger, matches)
         IN  IF matches > 0 /\ confidence > best.maxConfidence
             THEN ScanTriggers(i + 1, allText,
                      [maxConfidence |-> confidence, primaryType |-> trigger.type])
             ELSE ScanTriggers(i + 1, allText, best)

\* confidence < 0.5 for suggestion i, as binary floating point decides it:
\* 0.7 - 2 * 0.1 is 0.49999999999999994, below the floor that the exact
\* difference would reach.
BelowFloor(maxConfidence, i) ==
    \/ maxConfidence - i * SuggestionStep < SuggestionFloor
    \/ maxConfidence = 7000 /\ i = 2

\* Math.round(confidence * 100) / 100, in hundredths
RoundToHundredths(confidence) == (confidence + 50) \div 100

\* The suggestions without the threshold test: the floor alone decides.
FloorOnly(best, participantIds, t) ==
    LET count == Cardinality({i \in 0..2 : \A j \in 0..i : ~BelowFloor(best.maxConfidence, j)})
    IN  [k \in 1..count |->
           [type |-> best.primaryType,
            suggested_time |-> t + SuggestionOffsets[k],
            participants |-> participantIds,
            confidence |-> RoundToHundredths(best.maxConfidence
                                             - (k - 1) * SuggestionStep)]]

\* The suggestions for the best trigger: one per offset until the confidence
\* falls below the floor.
SuggestionsFor(best, participantIds, t) ==
    LET count == Cardinality({i \in 0..2 : \A j \in 0..i : ~BelowFloor(best.maxConfidence, j)})
    IN  IF best.maxConfidence < SuggestionThreshold THEN <<>>
        ELSE [k \in 1..count |->
                [type |-> best.primaryType,
                 suggested_time |-> t + SuggestionOffsets[k],
                 participants |-> participantIds,
                 confidence |-> RoundToHundredths(best.maxConfidence
                                                  - (k - 1) * SuggestionStep)]]

analyzeMessagesForMeetings(recent, participantIds, chat, t) ==
    IF recent = <<>> THEN <<>>
    ELSE CHOOSE suggestions \in
             {SuggestionsFor(best, participantIds, t) :
                 best \in {ScanTriggers(1, allText,
                               [maxConfidence |-> 0, primaryType |-> "general"]) :
                           allText \in {JoinWithSpace([i \in DOMAIN recent |->
                                            ToLowerCase(recent[i].content)])}}} : TRUE

DigitChar(d) == <<"0", "1", "2", "3", "4", "5", "6", "7", "8", "9">>[d + 1]

RECURSIVE Digits(_)
Digits(n) == IF n < 10 THEN <<DigitChar(n)>> ELSE Digits(n \div 10) \o <<DigitChar(n % 10)>>

TypeText(type) ==
    CASE type = "direct" -> T_direct
      [] type = "group" -> T_group
      [] OTHER -> T_ai_assistant

\* JSON.stringify of the analysis record; the date is written as its hour.
ContextContent(t, messageCount, suggestionsCount, chat) ==
    J_analysis_date \o Digits(t) \o J_message_count \o Digits(messageCount)
    \o J_suggestions_count \o Digits(suggestionsCount)
    \o J_chat_type \o TypeText(chat.type)
    \o J_participant_count \o Digits(Len(chat.participants)) \o J_close

\* The confidence of the last suggestion instead of the highest one.
LastConfidence(suggestions) == suggestions[Len(suggestions)].confidence

\* Math.max(...suggestions.map(s => s.confidence))
RECURSIVE MaxConfidence(_)
MaxConfidence(suggestions) ==
    IF Len(suggestions) = 1 THEN suggestions[1].confidence
    ELSE Max(suggestions[1].confidence, MaxConfidence(Tail(suggestions)))

RecentMessagesResults(table, chatId, t) ==
    LET rows == {m \in table : m.chat_id = chatId /\ m.created_at >= t - RecentWindowHours}
    IN  {LimitOffset(s, RecentMessageLimit, 0) :
            s \in {a \in Arrangements(rows) :
                      \A i, j \in DOMAIN a : i < j => ~ByCreated(a[j], a[i])}}

\* The meeting_context row that records an analysis with suggestions.
MeetingContextRow(table, chat, userId, recent, suggestions, t) ==
    AIContextRow(FreshId(table), userId, Some(chat.id), "meeting_context",
        ContextContent(t, Len(recent), Len(suggestions), chat),
        NullVector, MaxConfidence(suggestions), None, t)

MeetingSuggestionsCall(status, chatId, userId, wrote, read, suggestions) ==
    [op |-> "aiMeetingSuggestions", status |-> status, chat_id |-> chatId,
     user_id |-> userId, wrote |-> wrote, read |-> read, suggestions |-> suggestions]

AiMeetingSuggestions(chatId, userId) ==
    /\ LET found == ChatById(chats, chatId)
       IN  IF found = {}
           THEN /\ last' = MeetingSuggestionsCall("Chat not found", chatId, userId, {}, {}, <<>>)
                /\ aiContext' = aiContext
           ELSE LET chat == CHOOSE c \in found : TRUE
                IN  IF ~IsParticipant(chat, userId)
                    THEN /\ last' = MeetingSuggestionsCall(
                                        "User is not a participant in this chat",
                                        chatId, userId, {}, {}, <<>>)
                         /\ aiContext' = aiContext
                    ELSE \E recent \in RecentMessagesResults(messages, chatId, now) :
                         \E suggestions \in {analyzeMessagesForMeetings(recent,
                                 {u.id : u \in {v \in users : IsParticipant(chat, v.id)}},
                                 chat, now)} :
                           IF suggestions # <<>>
                           THEN /\ Cardinality(aiContext) < MaxRows
                                /\ \E row \in {MeetingContextRow(aiContext, chat, userId,
                                                    recent, suggestions, now)} :
                                      /\ aiContext' = InsertAIContext(aiContext, row)
                                      /\ last' = MeetingSuggestionsCall("ok", chatId, userId,
                                                     {row.id}, {m.id : m \in Range(recent)},
                                                     suggestions)
                           ELSE /\ aiContext' = aiContext
                                /\ last' = MeetingSuggestionsCall("ok", chatId, userId,
                                               {}, {m.id : m \in Range(recent)},
                                               suggestions)
    /\ UNCHANGED <<users, chats, messages, meetings, now, procs, seen>>

AiMeetingSuggestionsStep ==
    \E chatId \in TargetChats, userId \in ActingUsers : AiMeetingSuggestions(chatId, userId)

-----------------------------------------------------------------------------
(* aiChatCompletion.                                                        *)

ContextLimit == 5

\* The WHERE clause of the context query.  and(...) joins its conditions with
\* " and " inside one pair of parentheses and leaves the raw fragment as it is
\* written, so the clause reads
\*   (user_id = $1 and chat_id = $2 and expires_at IS NULL OR expires_at >= $3)
\* and OR binds weaker than AND.
ContextConditions(r, input, t) ==
    \/ /\ r.user_id = input.user_id
       /\ r.chat_id = Some(input.chat_id)
       /\ r.expires_at = None
    \/ /\ r.expires_at # None
       /\ r.expires_at[1] >= t

ContextRecordsResults(table, input, t) ==
    LET rows == {r \in table : ContextConditions(r, input, t)}
    IN  {LimitOffset(s, ContextLimit, 0) :
            s \in {a \in Arrangements(rows) :
                      \A i, j \in DOMAIN a : i < j => ~ByRelevanceThenCreated(a[j], a[i])}}

RecentContextResults(table, input) ==
    LET rows == {m \in table : m.chat_id = input.chat_id}
    IN  {LimitOffset(s, input.context_window, 0) :
            s \in {a \in Arrangements(rows) :
                      \A i, j \in DOMAIN a : i < j => ~ByCreated(a[j], a[i])}}

DefaultContextWindow == 10

CompletionInputs ==
    [chat_id : TargetChats, user_id : ActingUsers, message : {M_Hello_world},
     context_window : {1, DefaultContextWindow}, include_suggestions : {TRUE}]

CompletionCall(input, status, recent, context, t) ==
    [op |-> "aiChatCompletion", status |-> status, chat_id |-> input.chat_id,
     user_id |-> input.user_id, wrote |-> {}, read |-> {m.id : m \in Range(recent)},
     at |-> t, context |-> context, context_window |-> input.context_window,
     context_used |-> (Len(context) > 0 \/ Len(recent) > 0)]

AiChatCompletion(input) ==
    /\ IF ChatById(chats, input.chat_id) = {}
       THEN last' = CompletionCall(input, "Chat not found", <<>>, <<>>, now)
       ELSE IF ~UserExists(users, input.user_id)
       THEN last' = CompletionCall(input, "User not found", <<>>, <<>>, now)
       ELSE \E recent \in RecentContextResults(messages, input),
               context \in ContextRecordsResults(aiContext, input, now) :
                 last' = CompletionCall(input, "ok", recent, context, now)
    /\ UNCHANGED <<users, chats, messages, aiContext, meetings, now, procs, seen>>

AiChatCompletionStep == \E input \in CompletionInputs : AiChatCompletion(input)

-----------------------------------------------------------------------------
(* Users, chats and the handlers that operate on a chat.                    *)

InitChat ==
    /\ users = {} /\ chats = {} /\ messages = {} /\ aiContext = {} /\ meetings = {}
    /\ now = 0 /\ last = NoCall /\ procs = <<>> /\ seen = {}

NextChat ==
    \/ CreateUserStep
    \/ CreateChatStep
    \/ CreateMessageStep
    \/ GetChatMessagesStep
    \/ SummarizeConversationStep
    \/ AiMeetingSuggestionsStep
    \/ AiChatCompletionStep

SpecChat == InitChat /\ [][NextChat]_vars

\* C3: createChat with a creator or a participant that matches no stored user
\* fails with a not-found error that names the first missing reference (the
\* creator before the participants, the participants in list order) and leaves
\* the chats as they were; a call without a missing reference stores one chat;
\* every stored chat has an existing creator, only existing participants and
\* is_encrypted = TRUE.
C3_FirstMissingParticipant(input) ==
    LET missing == {i \in DOMAIN input.participants :
                        ~UserExists(users, input.participants[i])}
    IN  input.participants[CHOOSE i \in missing : \A j \in missing : i <= j]

C3_StoredChatsAreSound ==
    \A c \in chats :
        /\ c.is_encrypted = TRUE
        /\ UserExists(users, c.created_by)
        /\ \A i \in DOMAIN c.participants : UserExists(users, c.participants[i])

C3_CreateChatChecksReferences ==
    /\ [](C3_StoredChatsAreSound)
    /\ [][last'.op = "createChat" =>
            LET input == last'.input
                creatorMissing == ~UserExists(users, input.created_by)
                participantMissing == \E i \in DOMAIN input.participants :
                                         ~UserExists(users, input.participants[i])
            IN  /\ creatorMissing =>
                      /\ last'.status = "creator not found"
                      /\ last'.missing = input.created_by
                /\ (~creatorMissing /\ participantMissing) =>
                      /\ last'.status = "participant not found"
                      /\ last'.missing = C3_FirstMissingParticipant(input)
                /\ (creatorMissing \/ participantMissing) => chats' = chats
                /\ (~creatorMissing /\ ~participantMissing) =>
                      /\ last'.status = "ok"
                      /\ \E c \in chats' \ chats :
                            /\ chats' = chats \cup {c}
                            /\ c.participants = input.participants
                            /\ c.created_by = input.created_by]_vars

\* A call with a missing creator and a missing participant was refused for the
\* creator.
C3_Witness ==
    /\ last.op = "createChat"
    /\ last.status = "creator not found"
    /\ users # {}
    /\ \E i \in DOMAIN last.input.participants :
          ~UserExists(users, last.input.participants[i])

\* C17: summarizeConversation and aiMeetingSuggestions fail with "Chat not
\* found" for an unknown chat whoever the user is; for a stored chat and a user
\* outside its participant list they fail with their authorization error,
\* having read no message, returning no suggestion and inserting no context
\* row; otherwise they succeed.
C17_Unauthorized(op) ==
    IF op = "summarizeConversation" THEN "User not authorized to access this chat"
    ELSE "User is not a participant in this chat"

C17_ChatThenMembership ==
    [][last'.op \in {"summarizeConversation", "aiMeetingSuggestions"} =>
         IF \A c \in chats : c.id # last'.chat_id
         THEN /\ last'.status = "Chat not found"
              /\ last'.read = {} /\ last'.wrote = {} /\ aiContext' = aiContext
         ELSE IF \E c \in chats :
                    /\ c.id = last'.chat_id
                    /\ \A i \in DOMAIN c.participants : c.participants[i] # last'.user_id
         THEN /\ last'.status = C17_Unauthorized(last'.op)
              /\ last'.read = {} /\ last'.wrote = {} /\ aiContext' = aiContext
              /\ last'.op = "aiMeetingSuggestions" => last'.suggestions = <<>>
         ELSE last'.status = "ok"]_vars

\* A stored user outside the chat asked for meeting suggestions on a chat
\* whose messages call for a meeting.
C17_Witness ==
    /\ last.op = "aiMeetingSuggestions"
    /\ last.status = "User is not a participant in this chat"
    /\ UserExists(users, last.user_id)
    /\ \E m \in messages : m.chat_id = last.chat_id /\ m.content = M_Schedule_meeting
    /\ aiContext = {}

\* C4: a call of summarizeConversation, aiMeetingSuggestions, aiChatCompletion,
\* createMessage or getChatMessages that succeeds was made for a stored chat by
\* one of its participants (getChatMessages names no user: for a stored chat).
ChatHandlers ==
    {"summarizeConversation", "aiMeetingSuggestions", "aiChatCompletion",
     "createMessage", "getChatMessages"}

C4_ChatHandlersVerifyMembership ==
    (last.op \in ChatHandlers /\ last.status = "ok") =>
        \E c \in chats :
            /\ c.id = last.chat_id
            /\ last.op # "getChatMessages" => IsParticipant(c, last.user_id)

-----------------------------------------------------------------------------
(* createAIContext and searchAIContext.                                     *)

\* `text ILIKE pattern`: % matches any run of characters, _ any one character,
\* a backslash takes the next character literally, letters match in either
\* case.  i and j are the positions reached in text and pattern.
RECURSIVE LikeFrom(_, _, _, _)
LikeFrom(text, pattern, i, j) ==
    IF j > Len(pattern) THEN i > Len(text)
    ELSE IF pattern[j] = "%"
         THEN \E k \in i..(Len(text) + 1) : LikeFrom(text, pattern, k, j + 1)
    ELSE IF pattern[j] = "\\" /\ j < Len(pattern)
         THEN i <= Len(text) /\ text[i] = pattern[j + 1]
              /\ LikeFrom(text, pattern, i + 1, j + 2)
    ELSE /\ i <= Len(text)
         /\ (pattern[j] = "_" \/ LowerChar(text[i]) = LowerChar(pattern[j]))
         /\ LikeFrom(text, pattern, i + 1, j + 1)

ILike(text, pattern) == LikeFrom(text, pattern, 1, 1)

CreateAIContextInput(user, chat, type, content, score, expires) ==
    [user_id |-> user, chat_id |-> chat, context_type |-> type, content |-> content,
     embedding_vector |-> Absent, relevance_score |-> score, expires_at |-> expires]

\* Relevance scores are in hundredths; an expires_at is any hour of the clock.
CreateAIContextInputs ==
    { CreateAIContextInput("u1", Some("c1"), "conversation_summary", M_Hello_team,
                           80, Some(TickHours)),
      CreateAIContextInput("u1", Some("c1"), "conversation_summary", M_Plan, 90, None),
      CreateAIContextInput("u1", Some("c1"), "user_preference", M_Hello_team,
                           80, Some(MaxTime)),
      CreateAIContextInput("u2", None, "translation_cache", M_Hello_team,
                           95, Some(MaxTime)),
      CreateAIContextInput("u2", Some("c1"), "conversation_summary", M_Plan, 50, None) }

CreateAIContext(input) ==
    /\ Cardinality(aiContext) < MaxRows
    /\ LET row == AIContextRow(FreshId(aiContext), input.user_id, input.chat_id,
                      input.context_type, input.content,
                      IF input.embedding_vector = Absent THEN NullVector ELSE NumberVector,
                      input.relevance_score, input.expires_at, now)
       IN  /\ aiContext' = InsertAIContext(aiContext, row)
           /\ last' = [op |-> "createAIContext", status |-> "ok", wrote |-> {row.id}]
    /\ UNCHANGED <<users, chats, messages, meetings, now, procs, seen>>

CreateAIContextStep == \E input \in CreateAIContextInputs : CreateAIContext(input)

PercentSign == <<"%">>

\* The rows searchAIContext selects: the user's, of the type when one is given,
\* whose content matches %query%.
SearchConditions(r, input) ==
    /\ r.user_id = input.user_id
    /\ (input.context_type # Absent => r.context_type = input.context_type)
    /\ ILike(r.content, PercentSign \o input.query \o PercentSign)

SearchResults(table, input) ==
    LET rows == {r \in table : SearchConditions(r, input)}
    IN  {LimitOffset(s, input.limit, 0) :
            s \in {a \in Arrangements(rows) :
                      \A i, j \in DOMAIN a : i < j => ~ByRelevanceThenCreated(a[j], a[i])}}

DefaultSearchLimit == 10

SearchInputs ==
    [user_id : {"u1", "u2"}, context_type : {Absent, "conversation_summary"},
     query : {Q_hello, Q_percent, Q_any}, limit : {1, DefaultSearchLimit}]

SearchAIContext(input) ==
    /\ \E result \in SearchResults(aiContext, input) :
          last' = [op |-> "searchAIContext", status |-> "ok", input |-> input,
                   at |-> now, result |-> result]
    /\ UNCHANGED <<users, chats, messages, aiContext, meetings, now, procs, seen>>

SearchAIContextStep == \E input \in SearchInputs : SearchAIContext(input)

\* Two users share one chat that has no messages; context rows come and go
\* out of date as the clock advances.
InitContext ==
    /\ users = {User("u1", "a@example.com"), User("u2", "b@example.com")}
    /\ chats = {Chat("c1", W_Team, "group", <<"u1", "u2">>, "u1", 0)}
    /\ messages = {} /\ aiContext = {} /\ meetings = {}
    /\ now = 0 /\ last = NoCall /\ procs = <<>> /\ seen = {}

ContextCompletionInputs ==
    {input \in CompletionInputs : input.chat_id = "c1" /\ input.user_id # "u0"}

NextContext ==
    \/ CreateAIContextStep
    \/ SearchAIContextStep
    \/ \E input \in ContextCompletionInputs : AiChatCompletion(input)
    \/ Tick

SpecContext == InitContext /\ [][NextContext]_vars

Expired(r, t) == r.expires_at # None /\ r.expires_at[1] < t

\* C9: a successful aiChatCompletion uses no context row that had expired at
\* the time of the call; when the chat has no message and that user and chat
\* have context rows, all of them expired, context_used is FALSE; the rows of that user
\* and chat that have not expired are used when there are at most five.
C9_RowsOfUserAndChat(call) ==
    {r \in aiContext : r.user_id = call.user_id /\ r.chat_id = Some(call.chat_id)}

C9_CompletionIgnoresExpiredContext ==
    (last.op = "aiChatCompletion" /\ last.status = "ok") =>
        /\ \A r \in Range(last.context) : ~Expired(r, last.at)
        /\ ( /\ last.read = {}
             /\ C9_RowsOfUserAndChat(last) # {}
             /\ \A r \in C9_RowsOfUserAndChat(last) : Expired(r, last.at) )
           => ~last.context_used
        /\ LET fresh == {r \in C9_RowsOfUserAndChat(last) : ~Expired(r, last.at)}
           IN  Cardinality(fresh) <= ContextLimit => fresh \subseteq Range(last.context)

\* C10: searchAIContext returns no row that had expired at the time of the
\* call, only rows of the requested user (and type, when given), at most
\* `limit` of them, in non-increasing relevance_score order.
C10_SearchSkipsExpiredRows ==
    last.op = "searchAIContext" =>
        /\ \A r \in Range(last.result) :
              /\ ~Expired(r, last.at)
              /\ r.user_id = last.input.user_id
              /\ last.input.context_type # Absent =>
                    r.context_type = last.input.context_type
        /\ Len(last.result) <= last.input.limit
        /\ \A i, j \in DOMAIN last.result :
              i < j => last.result[i].relevance_score >= last.result[j].relevance_score

-----------------------------------------------------------------------------
(* createUser and updateUser.                                               *)

AvatarUrl == "https://example.com/a.png"

\* display_name is None when absent; avatar_url is Absent, Null or a string.
UpdateUserInput(id, name, avatar, preferences) ==
    [id |-> id, display_name |-> name, avatar_url |-> avatar,
     preferences |-> preferences]

\* The user row after the update: display_name ?? current, avatar_url unless
\* undefined, the merged preferences, a new updated_at.
UpdatedUser(user, input, t) ==
    [user EXCEPT
        !.display_name = IF input.display_name # None THEN input.display_name[1] ELSE @,
        !.avatar_url = IF input.avatar_url # Absent THEN input.avatar_url ELSE @,
        !.preferences = IF input.preferences # None
                        THEN MergePreferences(@, input.preferences[1]) ELSE @,
        !.updated_at = t]

UpdateUser(input) ==
    /\ LET currentUser == {u \in users : u.id = input.id}
       IN  IF currentUser = {}
           THEN /\ last' = [op |-> "updateUser", status |-> "User not found",
                            input |-> input]
                /\ users' = users
           ELSE \E user \in currentUser :
                  /\ users' = (users \ {user}) \cup {UpdatedUser(user, input, now)}
                  /\ last' = [op |-> "updateUser", status |-> "ok", input |-> input]
    /\ UNCHANGED <<chats, messages, aiContext, meetings, now, procs, seen>>

P_Spanish == Preferences(Some("es"), None, Some("proactive"), None, None)
P_Voice == Preferences(None, None, None, Some(TRUE), Some(FALSE))
P_NewYork == Preferences(None, Some("America/New_York"), None, None, None)

UpdateUserInputs ==
    { UpdateUserInput("u1", None, Absent, None),
      UpdateUserInput("u1", None, Absent, Some(NoPreferences)),
      UpdateUserInput("u1", None, Absent, Some(P_Spanish)),
      UpdateUserInput("u1", None, Absent, Some(P_Voice)),
      UpdateUserInput("u1", Some(N_Bob), AvatarUrl, None),
      UpdateUserInput("u1", Some(N_Ann), Null, Some(P_Spanish)),
      UpdateUserInput("u2", None, Absent, Some(P_Voice)),
      UpdateUserInput("u0", Some(N_Bob), Absent, Some(P_Spanish)) }

UpdateUserStep == \E input \in UpdateUserInputs : UpdateUser(input)

CreateUserInputs ==
    { CreateUserInput("a@example.com", N_Ann, Absent, None),
      CreateUserInput("a@example.com", N_Bob, Absent, Some(P_NewYork)),
      CreateUserInput("b@example.com", N_Bob, AvatarUrl, Some(P_NewYork)),
      CreateUserInput("b@example.com", N_Ann, Absent, Some(P_Voice)) }

CreateUserWithPreferencesStep == \E input \in CreateUserInputs : CreateUser(input)

InitUser ==
    /\ users = {} /\ chats = {} /\ messages = {} /\ aiContext = {} /\ meetings = {}
    /\ now = 0 /\ last = NoCall /\ procs = <<>> /\ seen = {}

NextUser == CreateUserWithPreferencesStep \/ UpdateUserStep \/ Tick

SpecUser == InitUser /\ [][NextUser]_vars

\* Concurrent createUser calls: each call is one INSERT, which the store
\* runs atomically against the unique index.
CreateUserRequest(input) == [pc |-> "insert", input |-> input, status |-> Null]

CreateUserInsert(p) ==
    /\ procs[p].pc = "insert"
    /\ Cardinality(users) < MaxUsers
    /\ LET row == UserRow(UserIdOf(FreshId(users)), procs[p].input, now)
       IN  IF UniqueEmailViolated(users, row)
           THEN /\ users' = users
                /\ procs' = [procs EXCEPT ![p].pc = "done", ![p].status = UniqueViolation]
           ELSE /\ users' = users \cup {row}
                /\ procs' = [procs EXCEPT ![p].pc = "done", ![p].status = "ok"]
    /\ UNCHANGED <<chats, messages, aiContext, meetings, now, last, seen>>

InitUserRace ==
    /\ users = {} /\ chats = {} /\ messages = {} /\ aiContext = {} /\ meetings = {}
    /\ now = 0 /\ last = NoCall /\ seen = {}
    /\ \E i \in CreateUserInputs, j \in CreateUserInputs :
          procs = [p \in ProcIds |-> IF p = 1 THEN CreateUserRequest(i)
                                     ELSE CreateUserRequest(j)]

NextUserRace == (\E p \in ProcIds : CreateUserInsert(p)) \/ Tick

SpecUserRace == InitUserRace /\ [][NextUserRace]_vars

\* C11: no two stored users share an email; a createUser call whose email is
\* stored fails with the unique-constraint error and adds no row, a call whose
\* email is not stored adds its row; of two concurrent calls with the same
\* email exactly one succeeds.
C11_EmailsAreUnique ==
    /\ [](\A u, v \in users : u.email = v.email => u = v)
    /\ [](\A p, q \in ProcIds :
            (p # q /\ procs[p].pc = "done" /\ procs[q].pc = "done"
             /\ procs[p].input.email = procs[q].input.email)
            => (procs[p].status = "ok") # (procs[q].status = "ok"))
    /\ [][\A p \in ProcIds :
            (procs[p].pc = "insert" /\ procs'[p].pc = "done") =>
                IF \E u \in users : u.email = procs[p].input.email
                THEN procs'[p].status = UniqueViolation /\ users' = users
                ELSE /\ procs'[p].status = "ok"
                     /\ Cardinality(users') = Cardinality(users) + 1
                     /\ \E u \in users' \ users : u.email = procs[p].input.email]_vars

\* Both calls carried the same email and have returned: one row is stored.
C11_Witness ==
    /\ procs[1].pc = "done" /\ procs[2].pc = "done"
    /\ procs[1].input.email = procs[2].input.email
    /\ procs[1].input # procs[2].input
    /\ procs[2].status = UniqueViolation
    /\ Cardinality(users) = 1

\* C12: a successful updateUser leaves every preference field the input does
\* not carry as it was and sets every field it carries; email, id and
\* created_at never change; an input with only the id, or with an empty
\* preferences object, changes nothing but updated_at; a call for an unknown
\* id fails and changes no row.
C12_CarriesNothing(input) ==
    /\ input.display_name = None
    /\ input.avatar_url = Absent
    /\ input.preferences \in {None, Some(NoPreferences)}

C12_PreferencesMergeFieldwise ==
    [][(now' = now /\ last'.op = "updateUser") =>
         LET input == last'.input
         IN  IF ~UserExists(users, input.id)
             THEN last'.status = "User not found" /\ users' = users
             ELSE /\ last'.status = "ok"
                  /\ \E old \in users, new \in users' :
                       /\ old.id = input.id /\ new.id = input.id
                       /\ users' = (users \ {old}) \cup {new}
                       /\ new.email = old.email
                       /\ new.created_at = old.created_at
                       /\ new.updated_at = now
                       /\ \A f \in PreferenceFields :
                            new.preferences[f] =
                               IF input.preferences # None /\ input.preferences[1][f] # None
                               THEN input.preferences[1][f]
                               ELSE old.preferences[f]
                       /\ C12_CarriesNothing(input) =>
                            new = [old EXCEPT !.updated_at = now]]_vars

\* A partial preferences update of a user whose other fields were not the
\* defaults, at a later hour than the creation.
C12_Witness ==
    /\ last.op = "updateUser" /\ last.status = "ok"
    /\ last.input.preferences = Some(P_Spanish)
    /\ \E u \in users :
          /\ u.id = last.input.id
          /\ u.preferences.language = Some("es")
          /\ u.preferences.timezone = Some("America/New_York")
          /\ u.updated_at > u.created_at
          /\ u.updated_at = now

-----------------------------------------------------------------------------
(* createMeeting.  The handler's body is not part of the sources at hand    *)
(* (create_meeting.ts holds a declaration only); it is modelled from the    *)
(* specification and from the handler's tests.                              *)

MaxMeetings == 2

MeetingIdOf(n) == <<"m1", "m2", "m3">>[n]

\* chat_id is Absent, Null or an id.
CreateMeetingInput(organizer, participants, chat, start, end) ==
    [title |-> "Team Meeting", description |-> Absent, organizer_id |-> organizer,
     participants |-> participants, start_time |-> start, end_time |-> end,
     timezone |-> "UTC", meeting_url |-> Absent, chat_id |-> chat,
     ai_suggested |-> FALSE]

MeetingRow(id, input, t) ==
    [id |-> id, title |-> input.title,
     description |-> IF input.description = Absent THEN Null ELSE input.description,
     organizer_id |-> input.organizer_id, participants |-> input.participants,
     start_time |-> input.start_time, end_time |-> input.end_time,
     timezone |-> input.timezone,
     meeting_url |-> IF input.meeting_url = Absent THEN Null ELSE input.meeting_url,
     chat_id |-> IF input.chat_id = Absent THEN Null ELSE input.chat_id,
     ai_suggested |-> input.ai_suggested, status |-> "scheduled",
     created_at |-> t, updated_at |-> t]

\* Variants of the checks: one that lets a meeting of no duration through and
\* one that never looks the chat up.
ZeroDurationAllowed(input, userTable, chatTable) ==
    LET missing == {i \in DOMAIN input.participants :
                        ~UserExists(userTable, input.participants[i])}
    IN  IF ~UserExists(userTable, input.organizer_id) THEN "Organizer not found"
        ELSE IF missing # {} THEN "Participant not found"
        ELSE IF input.chat_id \notin {Absent, Null} /\ ChatById(chatTable, input.chat_id) = {}
        THEN "Associated chat not found"
        ELSE IF input.start_time > input.end_time
        THEN "Start time must be before end time"
        ELSE "ok"

ChatNotLookedUp(input, userTable, chatTable) ==
    LET missing == {i \in DOMAIN input.participants :
                        ~UserExists(userTable, input.participants[i])}
    IN  IF ~UserExists(userTable, input.organizer_id) THEN "Organizer not found"
        ELSE IF missing # {} THEN "Participant not found"
        ELSE IF input.start_time >= input.end_time
        THEN "Start time must be before end time"
        ELSE "ok"

\* The checks before the insert: the organizer, the participants, the chat
\* when one is given, then start_time < end_time.
CreateMeetingChecks(input, userTable, chatTable) ==
    LET missing == {i \in DOMAIN input.participants :
                        ~UserExists(userTable, input.participants[i])}
    IN  IF ~UserExists(userTable, input.organizer_id) THEN "Organizer not found"
        ELSE IF missing # {} THEN "Participant not found"
        ELSE IF input.chat_id \notin {Absent, Null} /\ ChatById(chatTable, input.chat_id) = {}
        THEN "Associated chat not found"
        ELSE IF input.start_time >= input.end_time
        THEN "Start time must be before end time"
        ELSE "ok"

CreateMeetingInputs ==
    { CreateMeetingInput(o, ps, c, t[1], t[2]) :
        o \in {"u1", "u0"},
        ps \in {<<"u1">>, <<"u1", "u2">>, <<"u0", "u2">>},
        c \in {Absent, "c1", "c0"},
        t \in {<<0, 1>>, <<1, 1>>, <<MaxMeetingTime, 1>>} }

CreateMeeting(input) ==
    /\ LET status == CreateMeetingChecks(input, users, chats)
       IN  /\ last' = [op |-> "createMeeting", status |-> status, input |-> input]
           /\ IF status = "ok"
              THEN /\ Cardinality(meetings) < MaxMeetings
                   /\ meetings' = meetings \cup
                         {MeetingRow(MeetingIdOf(FreshId(meetings)), input, now)}
              ELSE meetings' = meetings
    /\ UNCHANGED <<users, chats, messages, aiContext, now, procs, seen>>

CreateMeetingStep == \E input \in CreateMeetingInputs : CreateMeeting(input)

\* One user and one chat are stored; a second user may sign up.
InitCreateMeeting ==
    /\ users = {User("u1", "a@example.com")}
    /\ chats = {Chat("c1", W_Team, "group", <<"u1">>, "u1", 0)}
    /\ messages = {} /\ aiContext = {} /\ meetings = {}
    /\ now = 0 /\ last = NoCall /\ procs = <<>> /\ seen = {}

NextCreateMeeting == CreateUserStep \/ CreateMeetingStep \/ Tick

SpecCreateMeeting == InitCreateMeeting /\ [][NextCreateMeeting]_vars

\* C13: createMeeting stores a meeting only when the organizer exists, every
\* participant exists, the chat exists when one is given and start_time is
\* before end_time; otherwise it fails with the error of the first failed
\* check, in that order, and stores nothing.  Every stored meeting has status
\* "scheduled".
C13_Expected(input) ==
    IF ~UserExists(users, input.organizer_id) THEN "Organizer not found"
    ELSE IF \E i \in DOMAIN input.participants : ~UserExists(users, input.participants[i])
    THEN "Participant not found"
    ELSE IF input.chat_id \notin {Absent, Null} /\ \A c \in chats : c.id # input.chat_id
    THEN "Associated chat not found"
    ELSE IF ~(input.start_time < input.end_time)
    THEN "Start time must be before end time"
    ELSE "ok"

-----------------------------------------------------------------------------
(* getUserChats.                                                            *)

MaxListedChats == 2

\* A chat counts for its creator as well.
CreatorOrParticipant(chat, userId) ==
    \/ chat.created_by = userId
    \/ \E i \in DOMAIN chat.participants : chat.participants[i] = userId

\* participants @> '["<userId>"]': every element of the right-hand array is
\* an element of the stored array.
JsonbContainsUser(chat, userId) ==
    \A j \in DOMAIN <<userId>> :
        \E i \in DOMAIN chat.participants : chat.participants[i] = <<userId>>[j]

\* ORDER BY updated_at DESC
ByUpdated(a, b) == a.updated_at > b.updated_at

GetUserChatsResults(table, userId) ==
    LET rows == {c \in table : JsonbContainsUser(c, userId)}
    IN  {a \in Arrangements(rows) :
            \A i, j \in DOMAIN a : i < j => ~ByUpdated(a[j], a[i])}

GetUserChats(userId) ==
    /\ \E result \in GetUserChatsResults(chats, userId) :
          last' = [op |-> "getUserChats", status |-> "ok", user_id |-> userId,
                   result |-> result]
    /\ UNCHANGED <<users, chats, messages, aiContext, meetings, now, procs, seen>>

GetUserChatsStep == \E userId \in ActingUsers : GetUserChats(userId)

ListedChatInputs ==
    { CreateChatInput(W_Hello, "direct", <<"u1">>, "u1"),
      CreateChatInput(W_Team, "group", <<"u2", "u1">>, "u1"),
      CreateChatInput(W_Team, "group", <<"u2">>, "u1"),
      CreateChatInput(W_Hello, "ai_assistant", <<>>, "u2"),
      CreateChatInput(W_Team, "group", <<"u1", "u0">>, "u1") }

ListedChatStep == \E input \in ListedChatInputs : CreateChatUpTo(input, MaxListedChats)

InitUserChats ==
    /\ users = {User("u1", "a@example.com"), User("u2", "b@example.com")}
    /\ chats = {} /\ messages = {} /\ aiContext = {} /\ meetings = {}
    /\ now = 0 /\ last = NoCall /\ procs = <<>> /\ seen = {}

NextUserChats == ListedChatStep \/ GetUserChatsStep \/ Tick

SpecUserChats == InitUserChats /\ [][NextUserChats]_vars

\* C14: getUserChats(u) returns exactly the stored chats whose participant
\* list contains u, each once, from the most recently updated to the least;
\* a chat that u created without being listed is not returned, and an unknown
\* user gets the empty list.
C14_ListedChatsNewestFirst ==
    last.op = "getUserChats" =>
        /\ Range(last.result) =
               {c \in chats : \E i \in DOMAIN c.participants :
                                  c.participants[i] = last.user_id}
        /\ \A i, j \in DOMAIN last.result : i # j => last.result[i] # last.result[j]
        /\ \A i, j \in DOMAIN last.result :
               i < j => last.result[i].updated_at >= last.result[j].updated_at
        /\ ~UserExists(users, last.user_id) => last.result = <<>>

\* Two chats of different hours are stored, one of them created by the user
\* without listing the user, and the call returned the other one only.
C14_Witness ==
    /\ last.op = "getUserChats"
    /\ Len(last.result) = 1
    /\ \E c, d \in chats :
          /\ c.created_by = last.user_id /\ ~IsParticipant(c, last.user_id)
          /\ IsParticipant(d, last.user_id)
          /\ c.updated_at > d.updated_at

-----------------------------------------------------------------------------
(* Messages posted at different hours and read back page by page.          *)

InitMessages ==
    /\ users = {} /\ chats = {} /\ messages = {} /\ aiContext = {} /\ meetings = {}
    /\ now = 0 /\ last = NoCall /\ procs = <<>> /\ seen = {}

NextMessages == CreateMessageStep \/ GetChatMessagesStep \/ Tick

SpecMessages == InitMessages /\ [][NextMessages]_vars

\* The messages a call of getChatMessages may return: those of the chat that
\* are strictly earlier than `before`, when it is given.
C15_Eligible(input) ==
    {m \in messages :
        /\ m.chat_id = input.chat_id
        /\ input.before # None => m.created_at < input.before[1]}

\* C15: getChatMessages returns messages of the given chat only, none with
\* created_at equal to or later than `before`, newest first, each once; they
\* are the ones at positions offset .. offset+limit-1 of that order, so none
\* when offset is past the end.
C15_PageOfNewestFirst ==
    last.op = "getChatMessages" =>
        LET input == last.input
            result == last.result
            eligible == C15_Eligible(input)
            count == Cardinality(eligible)
        IN  /\ Range(result) \subseteq eligible
            /\ \A i, j \in DOMAIN result :
                  i < j => /\ result[i] # result[j]
                           /\ result[i].created_at >= result[j].created_at
            /\ Len(result) = IF count <= input.offset THEN 0
                             ELSE Min(input.limit, count - input.offset)
            /\ \A k \in DOMAIN result :
                  /\ Cardinality({m \in eligible : m.created_at > result[k].created_at})
                        < input.offset + k
                  /\ Cardinality({m \in eligible : m.created_at >= result[k].created_at})
                        >= input.offset + k

\* A page of one message that leaves out a message of the chat posted at the
\* hour of `before`.
C15_Witness ==
    /\ last.op = "getChatMessages"
    /\ last.input.before # None
    /\ \E m \in messages :
          m.chat_id = last.input.chat_id /\ m.created_at = last.input.before[1]
    /\ Len(last.result) = 1

-----------------------------------------------------------------------------
(* detectTone: the tone label of a message.                                  *)

\* \w of a regular expression
WordChars ==
    Range(LowerCase) \cup Range(UpperCase) \cup {"_"}
       \cup {"0", "1", "2", "3", "4", "5", "6", "7", "8", "9"}

\* /\b(w1|w2|...)\b/.test(s) for words made of word characters: an occurrence
\* of one of the words with no word character on either side.
RegexWordTest(s, words) ==
    \E w \in words : \E i \in 0..(Len(s) - Len(w)) :
       /\ SubSeq(s, i + 1, i + Len(w)) = w
       /\ (i = 0 \/ s[i] \notin WordChars)
       /\ (i + Len(w) = Len(s) \/ s[i + Len(w) + 1] \notin WordChars)

professionalWords ==
    {<<"m", "e", "e", "t", "i", "n", "g">>,
     <<"s", "c", "h", "e", "d", "u", "l", "e">>,
     <<"d", "e", "a", "d", "l", "i", "n", "e">>,
     <<"p", "r", "o", "j", "e", "c", "t">>,
     <<"r", "e", "p", "o", "r", "t">>,
     <<"p", "r", "o", "p", "o", "s", "a", "l">>,
     <<"b", "u", "d", "g", "e", "t">>}

casualWords ==
    {<<"h", "e", "y">>,
     <<"h", "i">>,
     <<"l", "o", "l">>,
     <<"b", "t", "w">>,
     <<"a", "w", "e", "s", "o", "m", "e">>,
     <<"c", "o", "o", "l">>,
     <<"t", "h", "a", "n", "k", "s">>,
     <<"t", "h", "x">>}

empatheticWords ==
    {<<"h", "e", "l", "p">>,
     <<"s", "u", "p", "p", "o", "r", "t">>,
     <<"w", "o", "r", "r", "i", "e", "d">>,
     <<"c", "o", "n", "c", "e", "r", "n">>,
     <<"i", "s", "s", "u", "e">>,
     <<"p", "r", "o", "b", "l", "e", "m">>,
     <<"s", "o", "r", "r", "y">>}

conciseWords ==
    {<<"u", "r", "g", "e", "n", "t">>,
     <<"a", "s", "a", "p">>,
     <<"q", "u", "i", "c", "k", "l", "y">>,
     <<"n", "o", "w">>,
     <<"i", "m", "m", "e", "d", "i", "a", "t", "e", "l", "y">>,
     <<"s", "h", "o", "r", "t">>}

ConciseBelow == 20
DetailedAbove == 100

\* detectTone with the casual rule tried before the professional one.
CasualFirst(message) ==
    LET lowerMessage == ToLowerCase(message)
    IN  IF RegexWordTest(lowerMessage, casualWords) \/ Includes(message, <<"!">>)
        THEN "casual"
        ELSE IF RegexWordTest(lowerMessage, professionalWords)
        THEN "professional"
        ELSE IF RegexWordTest(lowerMessage, empatheticWords) \/ Includes(message, <<"?">>)
        THEN "empathetic"
        ELSE IF RegexWordTest(lowerMessage, conciseWords) \/ Len(message) < ConciseBelow
        THEN "concise"
        ELSE IF Len(message) > DetailedAbove THEN "detailed" ELSE "professional"

detectTone(message) ==
    LET lowerMessage == ToLowerCase(message)
    IN  IF RegexWordTest(lowerMessage, professionalWords)
        THEN "professional"
        ELSE IF RegexWordTest(lowerMessage, casualWords) \/ Includes(message, <<"!">>)
        THEN "casual"
        ELSE IF RegexWordTest(lowerMessage, empatheticWords) \/ Includes(message, <<"?">>)
        THEN "empathetic"
        ELSE IF RegexWordTest(lowerMessage, conciseWords) \/ Len(message) < ConciseBelow
        THEN "concise"
        ELSE IF Len(message) > DetailedAbove THEN "detailed" ELSE "professional"

\* const toneDetected = detectTone(input.message), for the request p carries.
DetectTone(p) ==
    /\ procs[p].pc = "detectTone"
    /\ last' = [op |-> "detectTone", text |-> procs[p].message,
                tone |-> detectTone(procs[p].message), at |-> now]
    /\ procs' = [procs EXCEPT ![p].pc = "done"]
    /\ UNCHANGED <<users, chats, messages, aiContext, meetings, now, seen>>

\* Messages are built from up to MaxPieces pieces joined by single spaces:
\* keywords of each rule, a keyword inside a longer word, the two punctuation
\* marks, and keyword-free runs on both sides of the two length thresholds.
MaxPieces == 2

RunOf(c, n) == [i \in 1..n |-> c]

TonePieces ==
    {<<"m", "e", "e", "t", "i", "n", "g">>, <<"H", "e", "y">>, <<"h", "e", "l", "p">>, <<"a", "s", "a", "p">>, <<"m", "e", "e", "t", "i", "n", "g", "s">>, <<"!">>, <<"?">>,
     RunOf("x", ConciseBelow - 1), RunOf("x", ConciseBelow),
     RunOf("x", DetailedAbove), RunOf("x", DetailedAbove + 1)}

ToneTexts ==
    {JoinWithSpace(ps) : ps \in UNION {[1..n -> TonePieces] : n \in 1..MaxPieces}}

InitTone ==
    /\ users = {} /\ chats = {} /\ messages = {} /\ aiContext = {} /\ meetings = {}
    /\ now = 0 /\ last = NoCall /\ seen = {}
    /\ \E text \in ToneTexts : procs = <<[pc |-> "detectTone", message |-> text]>>

NextTone == (\E p \in DOMAIN procs : DetectTone(p)) \/ Tick

SpecTone == InitTone /\ [][NextTone]_vars

\* The text in lower case with every character outside \w replaced by a space
\* and a space added at both ends: a word of the text is a word between spaces.
C18_Padded(text) ==
    SP \o [i \in 1..Len(text) |->
              IF text[i] \in WordChars THEN LowerChar(text[i]) ELSE " "] \o SP

C18_HasWord(padded, words) == \E w \in words : Includes(padded, SP \o w \o SP)

\* C18: the tone is the label of the first rule, in the order professional,
\* casual, empathetic, concise, that the text matches, whatever later rules it
\* matches too; a text that matches none is "detailed" when it is longer than
\* 100 characters and "professional" otherwise.  The label depends on the
\* text only.
C18_FirstMatchingRuleWins ==
    last.op = "detectTone" =>
       \E padded \in {C18_Padded(last.text)} :
          \E pro \in {C18_HasWord(padded, professionalWords)},
             cas \in {C18_HasWord(padded, casualWords) \/ Includes(last.text, <<"!">>)},
             emp \in {C18_HasWord(padded, empatheticWords) \/ Includes(last.text, <<"?">>)},
             con \in {C18_HasWord(padded, conciseWords) \/ Len(last.text) < 20} :
             /\ pro => last.tone = "professional"
             /\ (~pro /\ cas) => last.tone = "casual"
             /\ (~pro /\ ~cas /\ emp) => last.tone = "empathetic"
             /\ (~pro /\ ~cas /\ ~emp /\ con) => last.tone = "concise"
             /\ (~pro /\ ~cas /\ ~emp /\ ~con) =>
                   last.tone = IF Len(last.text) > 100 THEN "detailed" ELSE "professional"

\* A text with both "hey" and "meeting" was labelled professional.
C18_Witness ==
    /\ last.op = "detectTone"
    /\ last.text = <<"H", "e", "y">> \o SP \o <<"m", "e", "e", "t", "i", "n", "g">>
    /\ last.tone = "professional"

-----------------------------------------------------------------------------
(* aiMeetingSuggestions over the messages of one chat as time passes.       *)

M_Discuss == <<"D", "i", "s", "c", "u", "s", "s", " ", "d", "e", "c", "i", "s", "i", "o", "n", " ", "s", "t", "r", "a", "t", "e", "g", "y", " ", "b", "r", "a", "i", "n", "s", "t", "o", "r", "m">>
M_Project == <<"P", "r", "o", "j", "e", "c", "t", " ", "d", "e", "a", "d", "l", "i", "n", "e", " ", "p", "l", "a", "n", "n", "i", "n", "g">>
M_Demo == <<"D", "e", "m", "o", " ", "s", "h", "o", "w", "c", "a", "s", "e">>

\* Messages of chat c1: three of the four general keywords, one more general
\* keyword, all four discussion keywords, three project keywords, three
\* presentation keywords, and no keyword at all.
SuggestMessageInputs ==
    { CreateMessageInput("c1", "u1", M_Schedule_meeting),
      CreateMessageInput("c1", "u1", M_Call),
      CreateMessageInput("c1", "u1", M_Discuss),
      CreateMessageInput("c1", "u1", M_Project),
      CreateMessageInput("c1", "u1", M_Demo),
      CreateMessageInput("c1", "u1", M_Hello_world) }

SuggestMessageStep == \E input \in SuggestMessageInputs : CreateMessage(input)

\* Two users and their chat are stored, as in the tests' beforeEach.
InitSuggest ==
    /\ users = {User("u1", "a@example.com"), User("u2", "b@example.com")}
    /\ chats = {Chat("c1", W_Team, "group", <<"u1", "u2">>, "u1", 0)}
    /\ messages = {} /\ aiContext = {} /\ meetings = {}
    /\ now = 0 /\ last = NoCall /\ procs = <<>> /\ seen = {}

\* Calls by a participant, by a user outside the chat and for an unknown chat.
SuggestCalls == {<<"c1", "u1">>, <<"c1", "u0">>, <<"c0", "u1">>}

SuggestStep == \E call \in SuggestCalls : AiMeetingSuggestions(call[1], call[2])

NextSuggest == SuggestMessageStep \/ SuggestStep \/ Tick

SpecSuggest == InitSuggest /\ [][NextSuggest]_vars

\* The lowercased texts of the chat's messages of the last 24 hours.
C19_RecentTexts(chatId) ==
    {ToLowerCase(m.content) :
        m \in {n \in messages : n.chat_id = chatId /\ n.created_at >= now - 24}}

\* weight * matched / size of the keyword group i, in 1/10000.
C19_GroupConfidence(i, texts) ==
    (meetingTriggers[i].weight
       * Cardinality({k \in 1..4 : \E text \in texts :
                         Includes(text, meetingTriggers[i].keywords[k])})) \div 4

C19_Highest(all) == CHOOSE c \in Range(all) : \A i \in DOMAIN all : all[i] <= c

\* The winning confidence: the highest group confidence, 0 without messages.
C19_Winning(chatId) ==
    CHOOSE c \in {C19_Highest(all) :
                    all \in {[i \in 1..5 |-> C19_GroupConfidence(i, texts)] :
                                texts \in {C19_RecentTexts(chatId)}}} : TRUE

\* C19 as stated: the list is empty whenever the winning confidence is below
\* 0.6 (which includes a chat without a message in the last 24 hours), and no
\* returned suggestion carries a confidence below 0.6.
C19_NoSuggestionBelowThreshold ==
    [][(now' = now /\ last'.op = "aiMeetingSuggestions" /\ last'.status = "ok") =>
         /\ C19_Winning(last'.chat_id) < 6000 => last'.suggestions = <<>>
         /\ \A k \in DOMAIN last'.suggestions : last'.suggestions[k].confidence >= 60]_vars

\* C19 amended: the list is empty whenever the winning confidence is below
\* 0.6 (which includes a chat without a message in the last 24 hours); the
\* first returned suggestion carries at least 0.6 and no returned suggestion
\* carries a confidence below 0.5.
C19_ThresholdForFirstFloorForRest ==
    [][(now' = now /\ last'.op = "aiMeetingSuggestions" /\ last'.status = "ok") =>
         /\ C19_Winning(last'.chat_id) < 6000 => last'.suggestions = <<>>
         /\ last'.suggestions # <<>> => last'.suggestions[1].confidence >= 60
         /\ \A k \in DOMAIN last'.suggestions : last'.suggestions[k].confidence >= 50]_vars

\* Three of the four general keywords were read: 0.68 first, then 0.58.
C19_Witness ==
    /\ last.op = "aiMeetingSuggestions" /\ last.status = "ok"
    /\ Len(last.suggestions) = 2
    /\ last.suggestions[1].confidence = 68
    /\ last.suggestions[2].confidence = 58

\* C26: a call that returns at least one suggestion inserts exactly one
\* ai_context row: type meeting_context, owned by the caller, attached to the
\* analysed chat, relevance_score the highest confidence among the returned
\* suggestions, no expiry; a call that returns none or fails inserts no row;
\* no other table changes.
C26_OneMeetingContextRow ==
    [][(now' = now /\ last'.op = "aiMeetingSuggestions") =>
         /\ UNCHANGED <<users, chats, messages, meetings>>
         /\ IF last'.status = "ok" /\ last'.suggestions # <<>>
            THEN /\ \A r \in aiContext : r \in aiContext'
                 /\ Cardinality(aiContext' \ aiContext) = 1
                 /\ \A row \in aiContext' \ aiContext :
                       /\ row.context_type = "meeting_context"
                       /\ row.user_id = last'.user_id
                       /\ row.chat_id = Some(last'.chat_id)
                       /\ row.expires_at = None
                       /\ \E k \in DOMAIN last'.suggestions :
                             row.relevance_score = last'.suggestions[k].confidence
                       /\ \A k \in DOMAIN last'.suggestions :
                             row.relevance_score >= last'.suggestions[k].confidence
            ELSE aiContext' = aiContext]_vars

\* Three suggestions were returned and the row carries the highest confidence.
C26_Witness ==
    /\ last.op = "aiMeetingSuggestions" /\ last.status = "ok"
    /\ Len(last.suggestions) = 3
    /\ \E row \in aiContext :
          /\ row.id \in last.wrote
          /\ row.relevance_score = last.suggestions[1].confidence
          /\ row.relevance_score > last.suggestions[3].confidence

\* The earliest keyword group, in the order of the code, that reaches the
\* winning confidence.
C20_Winner(all) ==
    meetingTriggers[CHOOSE i \in DOMAIN all :
                       /\ all[i] = C19_Highest(all)
                       /\ \A j \in DOMAIN all : all[j] = all[i] => i <= j].type

\* The number of suggestions k = 0, 1, 2 before the first one whose
\* confidence c - 0.1 * k is below 0.5.
C20_Count(c) == Cardinality({k \in 0..2 : \A j \in 0..k : c - 1000 * j >= 5000})

\* C20: a call whose winning confidence c is at least 0.6 returns the
\* suggestions k = 0, 1, 2 at now+2h, now+24h, now+48h with confidence
\* c - 0.1 * k (to the hundredth), stopping at the first k whose confidence is
\* below 0.5: between 1 and 3 suggestions, confidences non-increasing and
\* within 0.5 .. 1.0, times strictly increasing, all of the type of the
\* group with the highest confidence, the earliest such group on a tie.
C20_SuggestionsDecreaseToFloor ==
    [][(now' = now /\ last'.op = "aiMeetingSuggestions" /\ last'.status = "ok") =>
         \E all \in {[i \in 1..5 |-> C19_GroupConfidence(i, texts)] :
                        texts \in {C19_RecentTexts(last'.chat_id)}} :
            \E c \in {C19_Highest(all)} :
               c >= 6000 =>
                  /\ Len(last'.suggestions) = C20_Count(c)
                  /\ Len(last'.suggestions) \in 1..3
                  /\ \A k \in DOMAIN last'.suggestions :
                        /\ last'.suggestions[k].suggested_time = now + <<2, 24, 48>>[k]
                        /\ last'.suggestions[k].confidence = (c - 1000 * (k - 1) + 50) \div 100
                        /\ last'.suggestions[k].confidence \in 50..100
                        /\ last'.suggestions[k].type = C20_Winner(all)
                  /\ \A k \in DOMAIN last'.suggestions : k > 1 =>
                        /\ last'.suggestions[k].confidence <= last'.suggestions[k - 1].confidence
                        /\ last'.suggestions[k].suggested_time
                              > last'.suggestions[k - 1].suggested_time]_vars

-----------------------------------------------------------------------------
(* analyzeSentiment: the sentiment of a list of message texts.              *)

positiveWords ==
    <<<<"g", "o", "o", "d">>,
     <<"g", "r", "e", "a", "t">>,
     <<"e", "x", "c", "e", "l", "l", "e", "n", "t">>,
     <<"a", "m", "a", "z", "i", "n", "g">>,
     <<"l", "o", "v", "e">>,
     <<"l", "i", "k", "e">>,
     <<"h", "a", "p", "p", "y">>,
     <<"g", "l", "a", "d">>,
     <<"t", "h", "a", "n", "k", "s">>,
     <<"t", "h", "a", "n", "k", " ", "y", "o", "u">>>>

negativeWords ==
    <<<<"b", "a", "d">>,
     <<"t", "e", "r", "r", "i", "b", "l", "e">>,
     <<"a", "w", "f", "u", "l">>,
     <<"h", "a", "t", "e">>,
     <<"d", "i", "s", "l", "i", "k", "e">>,
     <<"s", "a", "d">>,
     <<"a", "n", "g", "r", "y">>,
     <<"f", "r", "u", "s", "t", "r", "a", "t", "e", "d">>,
     <<"p", "r", "o", "b", "l", "e", "m">>,
     <<"i", "s", "s", "u", "e">>>>

\* words.filter(word => lowerMessage.includes(word)).length
WordHits(words, lowerMessage) ==
    Cardinality({i \in DOMAIN words : Includes(lowerMessage, words[i])})

\* The count accumulated by messages.forEach over messages[i..].
RECURSIVE CountFrom(_, _, _)
CountFrom(words, msgs, i) ==
    IF i > Len(msgs) THEN 0
    ELSE WordHits(words, ToLowerCase(msgs[i])) + CountFrom(words, msgs, i + 1)

\* analyzeSentiment asking for strictly more than twice the other count.
MoreThanTwice(msgs) ==
    IF Len(msgs) = 0 THEN "neutral"
    ELSE LET positiveCount == CountFrom(positiveWords, msgs, 1)
             negativeCount == CountFrom(negativeWords, msgs, 1)
         IN  IF positiveCount > negativeCount * 2 THEN "positive"
             ELSE IF negativeCount > positiveCount * 2 THEN "negative"
             ELSE "neutral"

\* positiveCount > negativeCount * 1.5 is 2 * positiveCount > 3 * negativeCount.
analyzeSentiment(msgs) ==
    IF Len(msgs) = 0 THEN "neutral"
    ELSE LET positiveCount == CountFrom(positiveWords, msgs, 1)
             negativeCount == CountFrom(negativeWords, msgs, 1)
         IN  IF 2 * positiveCount > 3 * negativeCount THEN "positive"
             ELSE IF 2 * negativeCount > 3 * positiveCount THEN "negative"
             ELSE "neutral"

\* const sentiment = analyzeSentiment(messageContents), for the list p carries.
AnalyzeSentiment(p) ==
    /\ procs[p].pc = "analyzeSentiment"
    /\ last' = [op |-> "analyzeSentiment", messages |-> procs[p].messages,
                sentiment |-> analyzeSentiment(procs[p].messages)]
    /\ procs' = [procs EXCEPT ![p].pc = "done"]
    /\ UNCHANGED <<users, chats, messages, aiContext, meetings, now, seen>>

\* Lists of up to MaxSentimentMessages texts: one and two positive words, one
\* and two negative words, a word of each kind ("dislike" includes "like"),
\* and no keyword.
MaxSentimentMessages == 3

SentimentTexts ==
    {<<"G", "r", "e", "a", "t", " ", "j", "o", "b">>,
     <<"I", " ", "l", "o", "v", "e", " ", "i", "t", ",", " ", "t", "h", "a", "n", "k", "s">>,
     <<"B", "a", "d">>,
     <<"T", "e", "r", "r", "i", "b", "l", "e", " ", "a", "n", "d", " ", "a", "w", "f", "u", "l">>,
     <<"I", " ", "d", "i", "s", "l", "i", "k", "e", " ", "i", "t">>,
     W_Hello}

SentimentLists == UNION {[1..n -> SentimentTexts] : n \in 0..MaxSentimentMessages}

InitSentiment ==
    /\ users = {} /\ chats = {} /\ messages = {} /\ aiContext = {} /\ meetings = {}
    /\ now = 0 /\ last = NoCall /\ seen = {}
    /\ \E msgs \in SentimentLists : procs = <<[pc |-> "analyzeSentiment", messages |-> msgs]>>

NextSentiment == (\E p \in DOMAIN procs : AnalyzeSentiment(p)) \/ Tick

SpecSentiment == InitSentiment /\ [][NextSentiment]_vars

\* The number of (message, word) pairs with the word in the lowercased message.
C21_Hits(words, msgs) ==
    Cardinality({pair \in (DOMAIN msgs) \X (DOMAIN words) :
                    Includes(ToLowerCase(msgs[pair[1]]), words[pair[2]])})

\* C21 as stated: positive whenever the positive hits are at least twice the
\* negative hits, negative whenever the negative hits are at least twice the
\* positive hits, neutral for the empty list.
C21_TwiceTheOtherDecides ==
    last.op = "analyzeSentiment" =>
       \E p \in {C21_Hits(positiveWords, last.messages)},
          n \in {C21_Hits(negativeWords, last.messages)} :
          /\ p >= 2 * n => last.sentiment = "positive"
          /\ n >= 2 * p => last.sentiment = "negative"
          /\ last.messages = <<>> => last.sentiment = "neutral"

\* C21 amended: positive whenever there is a positive hit and the positive
\* hits are at least twice the negative hits, negative whenever there is a
\* negative hit and the negative hits are at least twice the positive hits,
\* neutral for a list without any hit, the empty list included.
C21_TwiceTheOtherDecidesGivenAHit ==
    last.op = "analyzeSentiment" =>
       \E p \in {C21_Hits(positiveWords, last.messages)},
          n \in {C21_Hits(negativeWords, last.messages)} :
          /\ (p > 0 /\ p >= 2 * n) => last.sentiment = "positive"
          /\ (n > 0 /\ n >= 2 * p) => last.sentiment = "negative"
          /\ (p = 0 /\ n = 0) => last.sentiment = "neutral"

\* Exactly twice: two positive hits against one negative hit.
C21_Witness ==
    /\ last.op = "analyzeSentiment"
    /\ C21_Hits(positiveWords, last.messages) = 2
    /\ C21_Hits(negativeWords, last.messages) = 1
    /\ last.sentiment = "positive"

-----------------------------------------------------------------------------
(* calculateConfidence, in hundredths.                                      *)

requestWords ==
    {<<"p", "l", "e", "a", "s", "e">>, <<"h", "e", "l", "p">>, <<"c", "a", "n", " ", "y", "o", "u">>, <<"w", "o", "u", "l", "d", " ", "y", "o", "u">>, <<"c", "o", "u", "l", "d", " ", "y", "o", "u">>}

BaseConfidence == 50
ClarityBoost == 10
ClearAbove == 10
VeryClearAbove == 50
PerRecentMessage == 5
RecentBoostCap == 20
PerContextRecord == 10
ContextBoostCap == 30
ConfidenceCap == 95

\* calculateConfidence without the final cap.
UncappedConfidence(message, recentMessageCount, contextRecordCount) ==
    BaseConfidence
      + (IF Len(message) > ClearAbove THEN ClarityBoost ELSE 0)
      + (IF Len(message) > VeryClearAbove THEN ClarityBoost ELSE 0)
      + (IF RegexWordTest(ToLowerCase(message), requestWords) THEN ClarityBoost ELSE 0)
      + Min(recentMessageCount * PerRecentMessage, RecentBoostCap)
      + Min(contextRecordCount * PerContextRecord, ContextBoostCap)

calculateConfidence(message, recentMessageCount, contextRecordCount) ==
    Min(BaseConfidence
          + (IF Len(message) > ClearAbove THEN ClarityBoost ELSE 0)
          + (IF Len(message) > VeryClearAbove THEN ClarityBoost ELSE 0)
          + (IF RegexWordTest(ToLowerCase(message), requestWords) THEN ClarityBoost ELSE 0)
          + Min(recentMessageCount * PerRecentMessage, RecentBoostCap)
          + Min(contextRecordCount * PerContextRecord, ContextBoostCap),
        ConfidenceCap)

\* const confidence = calculateConfidence(input.message, recentMessages.length,
\* contextRecords.length), for the message and the counts p carries.
CalculateConfidence(p) ==
    /\ procs[p].pc = "calculateConfidence"
    /\ last' = [op |-> "calculateConfidence", message |-> procs[p].message,
                recentMessageCount |-> procs[p].recentMessageCount,
                contextRecordCount |-> procs[p].contextRecordCount,
                confidence |-> calculateConfidence(procs[p].message,
                                   procs[p].recentMessageCount,
                                   procs[p].contextRecordCount)]
    /\ UNCHANGED <<users, chats, messages, aiContext, meetings, now, procs, seen>>

MaxRecentCount == 6
MaxContextCount == 5

\* One more message of the chat is among the recent messages of the next call.
OneMoreRecentMessage(p) ==
    /\ procs[p].recentMessageCount < MaxRecentCount
    /\ procs' = [procs EXCEPT ![p].recentMessageCount = @ + 1]
    /\ UNCHANGED <<users, chats, messages, aiContext, meetings, now, last, seen>>

\* One more context record is among the context records of the next call.
OneMoreContextRecord(p) ==
    /\ procs[p].contextRecordCount < MaxContextCount
    /\ procs' = [procs EXCEPT ![p].contextRecordCount = @ + 1]
    /\ UNCHANGED <<users, chats, messages, aiContext, meetings, now, last, seen>>

\* Messages on both sides of the two length thresholds, with and without a
\* request phrase.
ConfidenceMessages ==
    {RunOf("x", ClearAbove), RunOf("x", ClearAbove + 1),
     RunOf("x", VeryClearAbove), RunOf("x", VeryClearAbove + 1),
     <<"H", "e", "l", "p">>, <<"C", "o", "u", "l", "d", " ", "y", "o", "u", " ", "c", "h", "e", "c", "k">>, <<"h", "e", "l", "p", "f", "u", "l">>,
     RunOf("x", VeryClearAbove) \o <<" ", "p", "l", "e", "a", "s", "e">>}

InitConfidence ==
    /\ users = {} /\ chats = {} /\ messages = {} /\ aiContext = {} /\ meetings = {}
    /\ now = 0 /\ last = NoCall /\ seen = {}
    /\ \E message \in ConfidenceMessages :
          procs = <<[pc |-> "calculateConfidence", message |-> message,
                     recentMessageCount |-> 0, contextRecordCount |-> 0]>>

NextConfidence ==
    \E p \in DOMAIN procs :
       CalculateConfidence(p) \/ OneMoreRecentMessage(p) \/ OneMoreContextRecord(p)

SpecConfidence == InitConfidence /\ [][NextConfidence]_vars

\* What the message alone contributes: the base and the clarity boosts.
C22_FromMessage(message) ==
    50 + (IF Len(message) > 10 THEN 10 ELSE 0) + (IF Len(message) > 50 THEN 10 ELSE 0)
       + (IF \E w \in requestWords :
               Includes(C18_Padded(message), SP \o w \o SP) THEN 10 ELSE 0)

\* C22: the confidence lies within 0.5 .. 0.95; the recent messages add 0.05
\* each up to 0.2 (4 messages), the context records 0.1 each up to 0.3 (3
\* records), before the cap; and a call with the same message and counts that
\* are no smaller returns a confidence that is no smaller.
C22_ConfidenceBoundedAndMonotone ==
    /\ [](last.op = "calculateConfidence" =>
            /\ last.confidence \in 50..95
            /\ \E recent \in {IF last.recentMessageCount < 4
                              THEN 5 * last.recentMessageCount ELSE 20},
                  context \in {IF last.contextRecordCount < 3
                               THEN 10 * last.contextRecordCount ELSE 30},
                  sum \in {C22_FromMessage(last.message)} :
                  last.confidence = IF sum + recent + context > 95 THEN 95
                                    ELSE sum + recent + context)
    /\ [][(/\ last.op = "calculateConfidence" /\ last'.op = "calculateConfidence"
           /\ last'.message = last.message
           /\ last'.recentMessageCount >= last.recentMessageCount
           /\ last'.contextRecordCount >= last.contextRecordCount)
          => last'.confidence >= last.confidence]_vars

\* More messages and records than the contributions count, and the cap reached.
C22_Witness ==
    /\ last.op = "calculateConfidence"
    /\ last.recentMessageCount > 4 /\ last.contextRecordCount > 3
    /\ last.confidence = 95

-----------------------------------------------------------------------------
(* extractActionItems: the action items of a list of message texts.         *)

SentenceEnd == {".", "!", "?"}

\* actionPatterns, in the order of the code.  Each pattern is one of the
\* heads (case-insensitive), then ":" (colon), or whitespace, a word,
\* whitespace and "to" (object), then whitespace (at least minSpace
\* characters), then the capture: a longest run of characters outside stops.
actionPatterns ==
    << [heads |-> {<<"n", "e", "e", "d", " ", "t", "o">>, <<"s", "h", "o", "u", "l", "d">>, <<"m", "u", "s", "t">>, <<"h", "a", "v", "e", " ", "t", "o">>, <<"w", "i", "l", "l">>, <<"g", "o", "i", "n", "g", " ", "t", "o">>},
        colon |-> FALSE, object |-> FALSE, minSpace |-> 1, stops |-> SentenceEnd],
       [heads |-> {<<"t", "o", "d", "o">>, <<"t", "a", "s", "k">>, <<"a", "c", "t", "i", "o", "n">>},
        colon |-> TRUE, object |-> FALSE, minSpace |-> 0, stops |-> SentenceEnd \cup {"\n"}],
       [heads |-> {<<"a", "s", "s", "i", "g", "n">>, <<"g", "i", "v", "e">>},
        colon |-> FALSE, object |-> TRUE, minSpace |-> 1, stops |-> SentenceEnd],
       [heads |-> {<<"d", "e", "a", "d", "l", "i", "n", "e">>, <<"d", "u", "e">>, <<"b", "y">>},
        colon |-> FALSE, object |-> FALSE, minSpace |-> 1, stops |-> SentenceEnd] >>

InClass(c, class, stops) ==
    CASE class = "space" -> IsSpace(c)
      [] class = "word" -> c \in WordChars
      [] OTHER -> c \notin stops

\* The last position of the longest run of characters of the class that
\* starts at position j; j - 1 when there is no such character at j.
RunEnd(s, j, class, stops) ==
    CHOOSE e \in (j - 1)..Len(s) :
       /\ \A k \in j..e : InClass(s[k], class, stops)
       /\ (e = Len(s) \/ ~InClass(s[e + 1], class, stops))

\* Position after a head of the pattern matched at position i, or 0.
AfterHead(s, i, pat) ==
    LET ends == {i + Len(h) : h \in {g \in pat.heads :
                    /\ i + Len(g) - 1 <= Len(s)
                    /\ ToLowerCase(SubSeq(s, i, i + Len(g) - 1)) = g}}
    IN  IF ends = {} THEN 0 ELSE CHOOSE j \in ends : TRUE

\* Position after what stands between the head and the final whitespace, or 0.
AfterMiddle(s, j, pat) ==
    IF j = 0 THEN 0
    ELSE IF pat.colon
    THEN IF j <= Len(s) /\ s[j] = ":" THEN j + 1 ELSE 0
    ELSE IF pat.object
    THEN LET a == RunEnd(s, j, "space", {}) + 1
             b == RunEnd(s, a, "word", {}) + 1
             c == RunEnd(s, b, "space", {}) + 1
         IN  IF /\ a > j /\ b > a /\ c > b
                /\ c + 1 <= Len(s)
                /\ ToLowerCase(SubSeq(s, c, c + 1)) = <<"t", "o">>
             THEN c + 2 ELSE 0
    ELSE j

\* The whitespace and the capture from position j on: the whitespace takes as
\* many characters as leave the capture a first character, the capture runs
\* to the next stop.
CaptureFrom(s, j, pat) ==
    IF j = 0 THEN None
    ELSE LET w == RunEnd(s, j, "space", {}) + 1
             starts == {q \in (j + pat.minSpace)..w :
                           q <= Len(s) /\ s[q] \notin pat.stops}
         IN  IF starts = {} THEN None
             ELSE LET q == CHOOSE x \in starts : \A y \in starts : y <= x
                      e == RunEnd(s, q, "capture", pat.stops)
                  IN  Some([capture |-> SubSeq(s, q, e), end |-> e])

MatchAt(s, i, pat) == CaptureFrom(s, AfterMiddle(s, AfterHead(s, i, pat), pat), pat)

\* message.matchAll(pattern): the captures of the matches from position pos
\* on, each match the leftmost one after the end of the one before.
RECURSIVE MatchAllFrom(_, _, _)
MatchAllFrom(s, pos, pat) ==
    LET at == {i \in pos..Len(s) : MatchAt(s, i, pat) # None}
    IN  IF at = {} THEN <<>>
        ELSE LET first == CHOOSE i \in at : \A k \in at : i <= k
                 found == MatchAt(s, first, pat)[1]
             IN  <<found.capture>> \o MatchAllFrom(s, found.end + 1, pat)

\* String.prototype.trim
Trim(s) ==
    LET inner == {i \in 1..Len(s) : ~IsSpace(s[i])}
    IN  IF inner = {} THEN <<>>
        ELSE SubSeq(s, CHOOSE i \in inner : \A k \in inner : i <= k,
                       CHOOSE i \in inner : \A k \in inner : k <= i)

\* The captures in the order of the two nested forEach loops: message k,
\* pattern n, from there on.
RECURSIVE CapturesFrom(_, _, _)
CapturesFrom(msgs, k, n) ==
    IF k > Len(msgs) THEN <<>>
    ELSE IF n > Len(actionPatterns) THEN CapturesFrom(msgs, k + 1, 1)
    ELSE MatchAllFrom(msgs[k], 1, actionPatterns[n]) \o CapturesFrom(msgs, k, n + 1)

MinItemLength == 5
ActionItemLimit == 10

\* actionItems: the trimmed captures of more than MinItemLength characters.
RECURSIVE PushedFrom(_, _)
PushedFrom(captures, i) ==
    IF i > Len(captures) THEN <<>>
    ELSE IF Len(Trim(captures[i])) > MinItemLength
    THEN <<Trim(captures[i])>> \o PushedFrom(captures, i + 1)
    ELSE PushedFrom(captures, i + 1)

\* [...new Set(items)]: insertion order, first occurrence of each value.
RECURSIVE SetOrder(_, _, _)
SetOrder(items, i, acc) ==
    IF i > Len(items) THEN acc
    ELSE IF items[i] \in Range(acc) THEN SetOrder(items, i + 1, acc)
    ELSE SetOrder(items, i + 1, Append(acc, items[i]))

\* extractActionItems without the Set.
WithDuplicates(captures) ==
    LimitOffset(PushedFrom(captures, 1), ActionItemLimit, 0)

\* extractActionItems, from the captures on.
ActionItemsOf(captures) ==
    LimitOffset(SetOrder(PushedFrom(captures, 1), 1, <<>>), ActionItemLimit, 0)

\* actionItems = extractActionItems(messageContents), for the list p carries.
ExtractActionItems(p) ==
    /\ procs[p].pc = "extractActionItems"
    /\ \E captures \in {CapturesFrom(procs[p].messages, 1, 1)} :
          last' = [op |-> "extractActionItems", messages |-> procs[p].messages,
                   captures |-> captures, items |-> ActionItemsOf(captures)]
    /\ procs' = [procs EXCEPT ![p].pc = "done"]
    /\ UNCHANGED <<users, chats, messages, aiContext, meetings, now, seen>>

\* Lists of up to MaxActionMessages texts: two patterns in one message, the
\* colon pattern, the object pattern, a capture to trim, a capture too short,
\* whitespace alone after the head, eleven captures, and no pattern at all.
MaxActionMessages == 2

ActionTexts ==
    {<<"W", "e", " ", "n", "e", "e", "d", " ", "t", "o", " ", "f", "i", "n", "i", "s", "h", " ", "t", "h", "e", " ", "p", "r", "o", "j", "e", "c", "t", " ", "b", "y", " ", "F", "r", "i", "d", "a", "y", ".">>,
     <<"T", "o", "d", "o", ":", " ", "R", "e", "v", "i", "e", "w", " ", "t", "h", "e", " ", "r", "e", "q", "u", "i", "r", "e", "m", "e", "n", "t", "s">>,
     <<"G", "i", "v", "e", " ", "i", "t", " ", "t", "o", " ", "t", "h", "e", " ", "n", "e", "w", " ", "t", "e", "a", "m", "!">>,
     <<"W", "e", " ", "M", "U", "S", "T", " ", "c", "a", "l", "l", " ", "B", "o", "b", " ", "s", "o", "o", "n", " ", "?">>,
     <<"m", "u", "s", "t", " ", "g", "o", ".">>,
     <<"W", "e", " ", "s", "h", "o", "u", "l", "d", " ", " ">>,
     <<"m", "u", "s", "t", " ", "d", "o", " ", "a", "0", "1", ".", " ", "m", "u", "s", "t", " ", "d", "o", " ", "a", "0", "2", ".", " ", "m", "u", "s", "t", " ", "d", "o", " ", "a", "0", "3", ".", " ", "m", "u", "s", "t", " ", "d", "o", " ", "a", "0", "4", ".", " ", "m", "u", "s", "t", " ", "d", "o", " ", "a", "0", "5", ".", " ", "m", "u", "s", "t", " ", "d", "o", " ", "a", "0", "6", ".", " ", "m", "u", "s", "t", " ", "d", "o", " ", "a", "0", "7", ".", " ", "m", "u", "s", "t", " ", "d", "o", " ", "a", "0", "8", ".", " ", "m", "u", "s", "t", " ", "d", "o", " ", "a", "0", "9", ".", " ", "m", "u", "s", "t", " ", "d", "o", " ", "a", "1", "0", ".", " ", "m", "u", "s", "t", " ", "d", "o", " ", "a", "1", "1", ".">>,
     W_Hello}

ActionLists == UNION {[1..n -> ActionTexts] : n \in 0..MaxActionMessages}

InitActionItems ==
    /\ users = {} /\ chats = {} /\ messages = {} /\ aiContext = {} /\ meetings = {}
    /\ now = 0 /\ last = NoCall /\ seen = {}
    /\ \E msgs \in ActionLists : procs = <<[pc |-> "extractActionItems", messages |-> msgs]>>

NextActionItems == (\E p \in DOMAIN procs : ExtractActionItems(p)) \/ Tick

SpecActionItems == InitActionItems /\ [][NextActionItems]_vars

\* The captures of the messages in input order, the four patterns in their
\* fixed order within a message: slot n is pattern ((n - 1) % 4) + 1 of
\* message ((n - 1) \div 4) + 1.
RECURSIVE C23_SlotsFrom(_, _)
C23_SlotsFrom(msgs, n) ==
    IF n > 4 * Len(msgs) THEN <<>>
    ELSE MatchAllFrom(msgs[((n - 1) \div 4) + 1], 1, actionPatterns[((n - 1) % 4) + 1])
            \o C23_SlotsFrom(msgs, n + 1)

\* Position i of seq holds a trimmed capture of more than 5 characters that
\* no earlier position yields.
C23_Counts(seq, i) ==
    /\ Len(Trim(seq[i])) > 5
    /\ \A k \in 1..(i - 1) : Trim(seq[k]) # Trim(seq[i])

\* C23: the result has no two equal items and at most 10 items, each a
\* trimmed capture of more than 5 characters, in the order in which the
\* captures were first seen (messages in input order, the four patterns in
\* fixed order within a message); it is empty for the empty list.
C23_FirstSeenUpToTen ==
    last.op = "extractActionItems" =>
       /\ last.captures = C23_SlotsFrom(last.messages, 1)
       /\ Len(last.items) <= 10
       /\ \A i, k \in DOMAIN last.items : i # k => last.items[i] # last.items[k]
       /\ \E counted \in {{i \in DOMAIN last.captures : C23_Counts(last.captures, i)}} :
             /\ Len(last.items) = IF Cardinality(counted) > 10 THEN 10
                                  ELSE Cardinality(counted)
             /\ \A n \in DOMAIN last.items :
                   \E i \in counted :
                      /\ Cardinality({k \in counted : k <= i}) = n
                      /\ last.items[n] = Trim(last.captures[i])
       /\ last.messages = <<>> => last.items = <<>>

\* Eleven different captures and a repeated one were seen; ten items returned.
C23_Witness ==
    /\ last.op = "extractActionItems"
    /\ Len(last.messages) = 2 /\ last.messages[1] = last.messages[2]
    /\ Len(last.captures) = 22
    /\ Len(last.items) = 10

-----------------------------------------------------------------------------
(* createMessage with a reply_to reference.                                 *)

\* Messages of chats c1 and c2 that reply to nothing, to the first or second
\* stored message, or to "m0", which no message carries.
ReplyInputs ==
    [chat_id : {"c1", "c2"}, sender_id : {"u1"}, content : {M_Hello_world},
     message_type : {"text"}, reply_to : {Absent, "m1", "m2", "m0"}]

ReplyStep == \E input \in ReplyInputs : CreateMessage(input)

InitReply ==
    /\ users = {User("u1", "a@example.com")}
    /\ chats = {Chat("c1", W_Team, "group", <<"u1">>, "u1", 0)}
    /\ messages = {} /\ aiContext = {} /\ meetings = {}
    /\ now = 0 /\ last = NoCall /\ procs = <<>> /\ seen = {}

NextReply == ReplyStep \/ Tick

SpecReply == InitReply /\ [][NextReply]_vars

\* C24: every stored message with a non-null reply_to refers to a stored
\* message of the same chat.
C24_RepliesStayInTheChat ==
    \A m \in messages :
       m.reply_to # Null =>
          \E n \in messages : n.id = m.reply_to /\ n.chat_id = m.chat_id

-----------------------------------------------------------------------------
(* The handlers that read or write the ai_context table, side by side.      *)

AppendContextInputs ==
    { CreateAIContextInput("u1", Some("c1"), "conversation_summary", M_Hello_team,
                           80, Some(TickHours)),
      CreateAIContextInput("u1", Some("c1"), "conversation_summary", M_Plan, 90, None),
      CreateAIContextInput("u1", None, "translation_cache", M_Hello_team, 95, Some(0)) }

AppendTranslateInputs ==
    { TranslateInput("u1", M_Hello_world, L_en, L_es),
      TranslateInput("u1", M_Hola_mundo, L_auto, L_en) }

AppendCompletionInputs ==
    {input \in CompletionInputs :
        input.chat_id = "c1" /\ input.user_id = "u1" /\ input.context_window = 1}

AppendSearchInputs ==
    {input \in SearchInputs :
        input.user_id = "u1" /\ input.query = Q_hello /\ input.limit = DefaultSearchLimit}

\* A user and a chat with one message that calls for a meeting.
InitAppend ==
    /\ users = {User("u1", "a@example.com")}
    /\ chats = {Chat("c1", W_Team, "group", <<"u1">>, "u1", 0)}
    /\ messages = {Message("m1", "c1", "u1", M_Schedule_meeting, "text", Null, 0)}
    /\ aiContext = {} /\ meetings = {}
    /\ now = 0 /\ last = NoCall /\ procs = <<>> /\ seen = {}

NextAppend ==
    \/ \E input \in AppendContextInputs : CreateAIContext(input)
    \/ \E input \in AppendTranslateInputs : TranslateMessage(input)
    \/ AiMeetingSuggestions("c1", "u1")
    \/ \E input \in AppendCompletionInputs : AiChatCompletion(input)
    \/ \E input \in AppendSearchInputs : SearchAIContext(input)
    \/ Tick

SpecAppend == InitAppend /\ [][NextAppend]_vars

\* C25: every ai_context row of a state is a row of the next state, with the
\* same fields, whichever handler ran and whether or not the row has expired.
C25_ContextRowsAreKept ==
    [][\A r \in aiContext : r \in aiContext']_vars

\* A row that has expired is still stored after a later insert by another
\* handler and a read.
C25_Witness ==
    /\ Cardinality(aiContext) = 2
    /\ \E r \in aiContext : Expired(r, now)
    /\ \E r \in aiContext : r.context_type = "meeting_context"
    /\ last.op = "aiChatCompletion"

-----------------------------------------------------------------------------
(* translateMessage for requests whose cache keys coincide.                 *)

M_Hello_world_joined == W_Hello \o US \o W_world
M_Long_hello == W_Hello \o SP \o RunOf("x", CacheKeyLength)

\* Requests of one user: a text with a space and the same text with an
\* underscore in its place; a text whose first CacheKeyLength characters fill
\* the key, to Spanish and to French.
CollidingInputs ==
    { TranslateInput("u1", M_Hello_world, L_en, L_es),
      TranslateInput("u1", M_Hello_world_joined, L_en, L_es),
      TranslateInput("u1", M_Long_hello, L_en, L_es),
      TranslateInput("u1", M_Long_hello, L_en, L_fr) }

CollidingStep == \E input \in CollidingInputs : TranslateMessage(input)

NextCollide == CollidingStep \/ Tick

SpecCollide == InitTranslate /\ [][NextCollide]_vars

\* The row is a translation_cache row of the user of the request and its
\* content is the key of the request.
C27_HasTheKey(r, input) ==
    /\ r.user_id = input.user_id
    /\ r.context_type = "translation_cache"
    /\ r.content = generateCacheKey(input.message, input.from_language,
                                    input.to_language)

\* C27: a request whose key equals the content of a stored translation_cache
\* row of the user is answered with the translated text stored in that row,
\* and stores nothing, whichever message and languages the row was stored
\* for; a request without such a row stores a row under its key.
C27_EqualKeysShareTheAnswer ==
    [][(now' = now /\ last'.op = "translateMessage") =>
         \E rows \in {{r \in aiContext : C27_HasTheKey(r, last'.input)}} :
            IF rows # {}
            THEN /\ last'.hit
                 /\ aiContext' = aiContext
                 /\ \E r \in rows :
                       /\ r.id = last'.row
                       /\ last'.response.translated_text
                             = r.embedding_vector.translated_text
            ELSE /\ ~last'.hit
                 /\ \E r \in aiContext' \ aiContext :
                       /\ r.embedding_vector.original_message = last'.input.message
                       /\ C27_HasTheKey(r, last'.input)]_vars

\* A request for French with a long message was answered with the Spanish
\* text stored for the earlier request: the key holds no language.
C27_Witness ==
    /\ last.op = "translateMessage" /\ last.hit
    /\ last.input.to_language = L_fr
    /\ Len(generateCacheKey(last.input.message, last.input.from_language,
                            last.input.to_language)) = 100
    /\ \E r \in aiContext :
          /\ r.id = last.row
          /\ r.embedding_vector.to_language = L_es
          /\ last.response.translated_text = r.embedding_vector.translated_text
          /\ last.response.translated_text
                # mockTranslationService(last.input.message, last.input.from_language,
                                         last.input.to_language).translated

-----------------------------------------------------------------------------
(* aiChatCompletion and the rows of other users and chats.                  *)

\* C28: the context rows a successful aiChatCompletion uses all belong to the
\* acting user and to the given chat, whatever their expires_at; when the chat
\* has no message and that user and chat have no context row, context_used is
\* FALSE whichever rows other users, other chats or no chat have.
C28_OnlyOwnRowsOfTheChat ==
    (last.op = "aiChatCompletion" /\ last.status = "ok") =>
        /\ \A r \in Range(last.context) :
              r.user_id = last.user_id /\ r.chat_id = Some(last.chat_id)
        /\ (last.read = {} /\ C9_RowsOfUserAndChat(last) = {}) => ~last.context_used

-----------------------------------------------------------------------------
(* Concurrent updateMeeting calls.  A call awaits the select, validates the *)
(* times against the row it read, and awaits the update, which sets only   *)
(* the columns of updateData on the row the store holds by then.           *)

UpdateMeetingRequest(input) ==
    [pc |-> "select", input |-> input, found |-> {}, status |-> Null]

\* const existingMeeting = await db.select()...; length === 0 throws.
MeetingSelect(p) ==
    LET input == procs[p].input
        found == ExistingMeeting(input.id)
    IN  /\ procs[p].pc = "select"
        /\ procs' = [procs EXCEPT ![p] =
                        IF found = {}
                        THEN [pc |-> "done", input |-> input, found |-> found,
                              status |-> "Meeting not found"]
                        ELSE [pc |-> "validate", input |-> input, found |-> found,
                              status |-> Null]]
        /\ UNCHANGED <<users, chats, messages, aiContext, meetings, now, last, seen>>

\* finalStartTime >= finalEndTime throws, computed from existingMeeting[0].
MeetingValidate(p) ==
    /\ procs[p].pc = "validate"
    /\ \E existing \in procs[p].found :
          procs' = [procs EXCEPT ![p] =
                       IF UpdateMeetingRejects(procs[p].input, existing)
                       THEN [@ EXCEPT !.pc = "done",
                                      !.status = "Meeting start time must be before end time"]
                       ELSE [@ EXCEPT !.pc = "update"]]
    /\ UNCHANGED <<users, chats, messages, aiContext, meetings, now, last, seen>>

\* await db.update(meetingsTable).set(updateData).where(eq(id, input.id)).
MeetingUpdate(p) ==
    LET input == procs[p].input
    IN  /\ procs[p].pc = "update"
        /\ meetings' = {IF m.id = input.id THEN UpdateData(input, m, now) ELSE m :
                            m \in meetings}
        /\ procs' = [procs EXCEPT ![p] = [@ EXCEPT !.pc = "done", !.status = "ok"]]
        /\ last' = UpdateMeetingCall(input, "ok", procs[p].found)
        /\ UNCHANGED <<users, chats, messages, aiContext, now, seen>>

\* Calls that carry times only, for the stored meeting or for no meeting.
MeetingRaceInputs ==
    {input \in UpdateMeetingInputs :
        /\ input.title = Absent
        /\ input.status = Absent}

InitMeetingRace ==
    /\ \E s \in MeetingTimes, e \in MeetingTimes :
          /\ s < e
          /\ meetings = {Meeting("m1", s, e, "scheduled")}
    /\ users = {} /\ chats = {} /\ messages = {} /\ aiContext = {}
    /\ now = 0 /\ last = NoCall /\ seen = {}
    /\ \E i \in MeetingRaceInputs, j \in MeetingRaceInputs :
          procs = [p \in ProcIds |-> IF p = 1 THEN UpdateMeetingRequest(i)
                                     ELSE UpdateMeetingRequest(j)]

NextMeetingRace ==
    \/ \E p \in ProcIds : MeetingSelect(p)
    \/ \E p \in ProcIds : MeetingValidate(p)
    \/ \E p \in ProcIds : MeetingUpdate(p)

SpecMeetingRace == InitMeetingRace /\ [][NextMeetingRace]_vars

\* C29: whichever way the select, validation and update of two updateMeeting
\* calls interleave, the meeting they address is stored with start_time
\* strictly before end_time.
C29_StartBeforeEndUnderRace ==
    \A p \in ProcIds :
        \A m \in ExistingMeeting(procs[p].input.id) : m.start_time < m.end_time

-----------------------------------------------------------------------------
(* Concurrent updateUser calls.  A call awaits the select, merges the       *)
(* preferences of the row it read in memory, and awaits an update that     *)
(* sets display_name, avatar_url, preferences and updated_at.              *)

UpdateUserRequest(input) ==
    [pc |-> "select", input |-> input, read |-> {}, status |-> Null]

\* const currentUser = await db.select()...; an empty result throws.
UserSelect(p) ==
    LET input == procs[p].input
        currentUser == {u \in users : u.id = input.id}
    IN  /\ procs[p].pc = "select"
        /\ procs' = [procs EXCEPT ![p] =
                        IF currentUser = {}
                        THEN [pc |-> "done", input |-> input, read |-> currentUser,
                              status |-> "User not found"]
                        ELSE [pc |-> "update", input |-> input, read |-> currentUser,
                              status |-> Null]]
        /\ UNCHANGED <<users, chats, messages, aiContext, meetings, now, last, seen>>

\* await db.update(usersTable).set({display_name: input.display_name ??
\* user.display_name, ..., preferences: updatedPreferences}): the four columns
\* are computed from the row that was read.
UserUpdate(p) ==
    LET input == procs[p].input
    IN  /\ procs[p].pc = "update"
        /\ \E user \in procs[p].read :
              \E written \in {UpdatedUser(user, input, now)} :
                 users' = {IF u.id = input.id
                           THEN [u EXCEPT !.display_name = written.display_name,
                                          !.avatar_url = written.avatar_url,
                                          !.preferences = written.preferences,
                                          !.updated_at = written.updated_at]
                           ELSE u : u \in users}
        /\ procs' = [procs EXCEPT ![p] = [@ EXCEPT !.pc = "done", !.status = "ok"]]
        /\ last' = [op |-> "updateUser", status |-> "ok", input |-> input]
        /\ UNCHANGED <<chats, messages, aiContext, meetings, now, seen>>

InitUserUpdateRace ==
    /\ users = {User("u1", "a@example.com"), User("u2", "b@example.com")}
    /\ chats = {} /\ messages = {} /\ aiContext = {} /\ meetings = {}
    /\ now = 0 /\ last = NoCall /\ seen = {}
    /\ \E i \in UpdateUserInputs, j \in UpdateUserInputs :
          procs = [p \in ProcIds |-> IF p = 1 THEN UpdateUserRequest(i)
                                     ELSE UpdateUserRequest(j)]

NextUserUpdateRace ==
    \/ \E p \in ProcIds : UserSelect(p)
    \/ \E p \in ProcIds : UserUpdate(p)
    \/ Tick

SpecUserUpdateRace == InitUserUpdateRace /\ [][NextUserUpdateRace]_vars

\* The preference fields an input sets.
C30_FieldsSet(input) ==
    IF input.preferences = None THEN {}
    ELSE {f \in PreferenceFields : input.preferences[1][f] # None}

\* The input's display_name and preference values are those of the row.
C30_Carries(u, input) ==
    /\ input.display_name # None => u.display_name = input.display_name[1]
    /\ \A f \in C30_FieldsSet(input) : u.preferences[f] = input.preferences[1][f]

\* C30: when two updateUser calls on one user that set disjoint preference
\* fields, at most one of them a display_name, have both returned, the stored
\* user carries the values of both, however their selects and updates
\* interleaved.
C30_BothUpdatesAreStored ==
    \A p \in ProcIds, q \in ProcIds :
        (/\ p # q
         /\ procs[p].pc = "done" /\ procs[q].pc = "done"
         /\ procs[p].status = "ok" /\ procs[q].status = "ok"
         /\ procs[p].input.id = procs[q].input.id
         /\ C30_FieldsSet(procs[p].input) \cap C30_FieldsSet(procs[q].input) = {}
         /\ procs[p].input.display_name = None \/ procs[q].input.display_name = None)
        => \A u \in users :
              u.id = procs[p].input.id =>
                 C30_Carries(u, procs[p].input) /\ C30_Carries(u, procs[q].input)

=============================================================================
